---- MODULE Spec2Model ----
(***************************************************************************)
(* Model of the LG-Pay payment back-end (five near-duplicate Express       *)
(* services): the canonical MD5 request signers, the webhook that verifies *)
(* inbound notifications, and the create-order handler.                    *)
(*                                                                         *)
(* Text is modelled as a sequence of one-character strings, so that the    *)
(* form encoding done by URLSearchParams, decodeURIComponent, trim and the *)
(* sort of the field names are computed character by character.            *)
(* A JavaScript value is a record [t, s]: t is its type tag and s its text *)
(* (the characters of a string, the decimal rendering of a number).        *)
(* A JavaScript object is the sequence of its [k, v] entries in insertion  *)
(* order (field names in the model are never integer-like, so insertion    *)
(* order is the enumeration order of Object.keys).                         *)
(***************************************************************************)
EXTENDS Integers, Sequences, FiniteSets, TLC

(***************************************************************************)
(* Bounds of the model.                                                    *)
(***************************************************************************)
\* the largest number of fields of a map handed to a signer or posted to
\* the webhook
MaxFields == 2

\* the last reading of the clock, in milliseconds after the start
MaxClock == 1

(***************************************************************************)
(* Characters: printable ASCII, code units 32..126 (the grave accent, code *)
(* unit 96, is spelled out: no text of the model holds it).                *)
(***************************************************************************)
Ascii ==
  << " ", "!", "\"", "#", "$", "%", "&", "'", "(", ")", "*", "+", ",", "-", ".", "/",
     "0", "1", "2", "3", "4", "5", "6", "7", "8", "9", ":", ";", "<", "=", ">", "?",
     "@", "A", "B", "C", "D", "E", "F", "G", "H", "I", "J", "K", "L", "M", "N", "O",
     "P", "Q", "R", "S", "T", "U", "V", "W", "X", "Y", "Z", "[", "\\", "]", "^", "_",
     "grave", "a", "b", "c", "d", "e", "f", "g", "h", "i", "j", "k", "l", "m", "n", "o",
     "p", "q", "r", "s", "t", "u", "v", "w", "x", "y", "z", "{", "|", "}", "~" >>

\* the UTF-16 code unit of a character
Code(c) == 31 + (CHOOSE i \in 1..Len(Ascii) : Ascii[i] = c)

\* the pairs of characters of which the first has the smaller code unit
Precedes ==
  UNION { { << Ascii[i], Ascii[j] >> : j \in (i + 1)..Len(Ascii) } : i \in 1..Len(Ascii) }

\* String.fromCharCode
CharOf(n) == Ascii[n - 31]

HexDigits == << "0", "1", "2", "3", "4", "5", "6", "7", "8", "9", "A", "B", "C", "D", "E", "F" >>

\* the digits and letters: code units 48..57, 65..90, 97..122
Alnum == { CharOf(n) : n \in (48..57) \cup (65..90) \cup (97..122) }

IsAlnum(c) == c \in Alnum

\* the value of a hexadecimal digit, -1 when the character is none
HexVal(c) ==
  LET n == Code(c)
  IN  IF n >= 48 /\ n <= 57 THEN n - 48
      ELSE IF n >= 65 /\ n <= 70 THEN n - 55
      ELSE IF n >= 97 /\ n <= 102 THEN n - 87
      ELSE -1

(***************************************************************************)
(* JavaScript values.                                                      *)
(***************************************************************************)
Str(s) == [t |-> "str", s |-> s]
Undefined == [t |-> "undef", s |-> << >>]
Null == [t |-> "null", s |-> << >>]
Num(s) == [t |-> "num", s |-> s]

\* truthiness, as tested by if (x) and !x
Truthy(v) ==
  CASE v.t = "undef" -> FALSE
    [] v.t = "null" -> FALSE
    [] v.t = "str" -> Len(v.s) > 0
    [] v.t = "num" -> v.s \notin { << "0" >>, << "N", "a", "N" >> }
    [] OTHER -> TRUE

\* String(v), the conversion done by a template literal ${v}, by + with
\* a string and by URLSearchParams.append
ToStr(v) ==
  CASE v.t = "undef" -> << "u", "n", "d", "e", "f", "i", "n", "e", "d" >>
    [] v.t = "null" -> << "n", "u", "l", "l" >>
    [] OTHER -> v.s

(***************************************************************************)
(* crypto.createHash('md5').update(s).digest('hex'): the digest is taken   *)
(* to be collision-free, so a token is identified by the text hashed; the  *)
(* tag keeps the letter case of the hexadecimal rendering (digest('hex')   *)
(* is lower case, toUpperCase() makes the token upper case).               *)
(***************************************************************************)
md5hex(s) == [t |-> "hex", s |-> s]

toUpperCase(v) == IF v.t = "hex" THEN [t |-> "HEX", s |-> v.s] ELSE v

(***************************************************************************)
(* JavaScript objects.                                                     *)
(***************************************************************************)
ObjectKeys(obj) == [i \in 1..Len(obj) |-> obj[i].k]

HasKey(obj, name) == \E i \in 1..Len(obj) : obj[i].k = name

\* obj[name]: undefined when the object has no such property
Get(obj, name) ==
  IF HasKey(obj, name)
  THEN obj[CHOOSE i \in 1..Len(obj) : obj[i].k = name].v
  ELSE Undefined

\* delete obj[name]
DeleteKey(obj, name) == SelectSeq(obj, LAMBDA e : e.k # name)

\* obj[name] = v: an existing property keeps its place, a new one goes last
SetKey(obj, name, v) ==
  IF HasKey(obj, name)
  THEN [i \in 1..Len(obj) |-> IF obj[i].k = name THEN [k |-> name, v |-> v] ELSE obj[i]]
  ELSE Append(obj, [k |-> name, v |-> v])

(***************************************************************************)
(* Array.prototype.sort() without a comparator: ascending by code units.   *)
(***************************************************************************)
\* a < b for two strings: the first place where they differ decides, and a
\* proper prefix comes first
StrLess(a, b) ==
  LET n == IF Len(a) < Len(b) THEN Len(a) ELSE Len(b)
      diff == { i \in 1..n : a[i] # b[i] }
      first == CHOOSE i \in diff : \A j \in diff : i <= j
  IN  IF diff = {} THEN Len(a) < Len(b)
      ELSE << a[first], b[first] >> \in Precedes

\* a signer that keeps the insertion order of the fields
Sort_unsorted(seq) == seq

\* the sorted array: the element at place r has exactly r - 1 elements before it
Sort(seq) ==
  LET Before(j, i) == StrLess(seq[j], seq[i]) \/ (seq[j] = seq[i] /\ j < i)
      Rank(i) == Cardinality({ j \in 1..Len(seq) : Before(j, i) })
  IN  [r \in 1..Len(seq) |-> seq[CHOOSE i \in 1..Len(seq) : Rank(i) = r - 1]]

\* Array.prototype.join
RECURSIVE Join(_, _)
Join(parts, sep) ==
  IF Len(parts) = 0 THEN << >>
  ELSE IF Len(parts) = 1 THEN Head(parts)
  ELSE Head(parts) \o sep \o Join(Tail(parts), sep)

(***************************************************************************)
(* Text helpers.                                                           *)
(***************************************************************************)
\* the one-character strings of the field names and literals of the code
K_sign == << "s", "i", "g", "n" >>
K_a == << "a" >>
K_b == << "b" >>
AMP == << "&" >>
EQ == << "=" >>
KEY_SUFFIX == << "&", "k", "e", "y", "=" >>

\* application/x-www-form-urlencoded serialisation of one name or value, as
\* done by URLSearchParams.prototype.toString: alphanumerics and * - . _
\* stay, a space becomes '+', every other byte becomes %XX
FormEncode(s) ==
  LET Kept(c) == IsAlnum(c) \/ c \in { "*", "-", ".", "_" }
      \* three places per character: the character or its escape, padded
      \* with empty places
      places == [p \in 1..(3 * Len(s)) |->
                   LET c == s[((p - 1) \div 3) + 1]
                       r == ((p - 1) % 3) + 1
                   IN  IF Kept(c) THEN (IF r = 1 THEN c ELSE "")
                       ELSE IF c = " " THEN (IF r = 1 THEN "+" ELSE "")
                       ELSE << "%", HexDigits[(Code(c) \div 16) + 1],
                               HexDigits[(Code(c) % 16) + 1] >>[r]]
  IN  SelectSeq(places, LAMBDA c : c # "")

\* new URLSearchParams(); params.append(k, v) for the entries in order;
\* params.toString()
RECURSIVE URLSearchParamsToString(_)
URLSearchParamsToString(obj) ==
  IF Len(obj) = 0 THEN << >>
  ELSE LET e == Head(obj)
           one == FormEncode(e.k) \o EQ \o FormEncode(ToStr(e.v))
       IN  IF Len(obj) = 1 THEN one
           ELSE one \o AMP \o URLSearchParamsToString(Tail(obj))

\* decodeURIComponent: every %XX escape becomes its character and every
\* other character, '+' included, is kept. A '%' that starts no escape makes
\* the real function throw URIError; the text then ends in the marker
\* "URIError" (URLSearchParams.toString never produces such a text).
decodeURIComponent(s) ==
  LET Escape(t, i) == 16 * HexVal(t[i + 1]) + HexVal(t[i + 2])
      Malformed(i) == s[i] = "%"
                        /\ ~(i + 2 <= Len(s) /\ HexVal(s[i + 1]) >= 0 /\ HexVal(s[i + 2]) >= 0
                               /\ Escape(s, i) >= 32 /\ Escape(s, i) <= 126)
      bad == { i \in 1..Len(s) : Malformed(i) }
      \* the text before the first malformed escape
      p == IF bad = {} THEN s
           ELSE SubSeq(s, 1, (CHOOSE i \in bad : \A j \in bad : i <= j) - 1)
      \* a hex digit is never '%', so every '%' of p starts an escape and the
      \* two characters after it belong to that escape
      InEscape(i) == (i > 1 /\ p[i - 1] = "%") \/ (i > 2 /\ p[i - 2] = "%")
      out == [i \in 1..Len(p) |->
                IF InEscape(i) THEN ""
                ELSE IF p[i] = "%" THEN CharOf(Escape(p, i))
                ELSE p[i]]
      decoded == SelectSeq(out, LAMBDA c : c # "")
  IN  IF bad = {} THEN decoded ELSE decoded \o << "URIError" >>

\* String.prototype.trim
RECURSIVE TrimStart(_)
TrimStart(s) == IF Len(s) > 0 /\ Head(s) = " " THEN TrimStart(Tail(s)) ELSE s

RECURSIVE TrimEnd(_)
TrimEnd(s) ==
  IF Len(s) > 0 /\ s[Len(s)] = " " THEN TrimEnd(SubSeq(s, 1, Len(s) - 1)) ELSE s

trim(s) == TrimEnd(TrimStart(s))

\* the entries of obj in the order of the names in keys
PickInOrder(obj, keys) == [i \in 1..Len(keys) |-> [k |-> keys[i], v |-> Get(obj, keys[i])]]

\* value !== null && value !== undefined && value !== ''
NonEmpty(value) == value # Null /\ value # Undefined /\ value # Str(<< >>)

(***************************************************************************)
(* The signers.                                                            *)
(***************************************************************************)
\* md5_sign without the secret after "&key="
md5_sign_stringToSign_noSecret(data, key) ==
  LET dataToSign == DeleteKey(data, K_sign)
      sortedKeys == Sort(ObjectKeys(dataToSign))
      kept == SelectSeq(PickInOrder(dataToSign, sortedKeys), LAMBDA e : NonEmpty(e.v))
      pairs == [i \in 1..Len(kept) |-> kept[i].k \o EQ \o ToStr(kept[i].v)]
  IN  Join(pairs, AMP) \o KEY_SUFFIX

\* src/server.js md5_sign: the text that is hashed
md5_sign_stringToSign(data, key) ==
  LET dataToSign == DeleteKey(data, K_sign)
      sortedKeys == Sort(ObjectKeys(dataToSign))
      kept == SelectSeq(PickInOrder(dataToSign, sortedKeys), LAMBDA e : NonEmpty(e.v))
      pairs == [i \in 1..Len(kept) |-> kept[i].k \o EQ \o ToStr(kept[i].v)]
      queryString == Join(pairs, AMP)
  IN  queryString \o KEY_SUFFIX \o ToStr(key)

md5_sign(data, key) == toUpperCase(md5hex(md5_sign_stringToSign(data, key)))

\* src/server.js md5_sign_v2: the alternative signer
md5_sign_v2_stringToSign(data, key) ==
  LET dataToSign == DeleteKey(data, K_sign)
      sortedKeys == Sort(ObjectKeys(dataToSign))
      params == SelectSeq(PickInOrder(dataToSign, sortedKeys), LAMBDA e : NonEmpty(e.v))
      queryString == decodeURIComponent(URLSearchParamsToString(params))
  IN  queryString \o KEY_SUFFIX \o ToStr(key)

md5_sign_v2(data, key) == toUpperCase(md5hex(md5_sign_v2_stringToSign(data, key)))

\* generateSignature joining the suffix like one more field: no '&' before
\* "key=" when no field is signed
generateSignature_stringToSign_joined(data, secretKey) ==
  LET signData == DeleteKey(data, K_sign)
      sortedKeys == Sort(ObjectKeys(signData))
      kept == SelectSeq(PickInOrder(signData, sortedKeys), LAMBDA e : NonEmpty(e.v))
      queryParts == [i \in 1..Len(kept) |-> kept[i].k \o EQ \o ToStr(kept[i].v)]
  IN  Join(queryParts \o << << "k", "e", "y", "=" >> \o ToStr(secretKey) >>, AMP)

\* generateSignature of src/unnamed/part_000 (the same text in part_001 and
\* part_002)
generateSignature_stringToSign(data, secretKey) ==
  LET signData == DeleteKey(data, K_sign)
      sortedKeys == Sort(ObjectKeys(signData))
      kept == SelectSeq(PickInOrder(signData, sortedKeys), LAMBDA e : NonEmpty(e.v))
      queryParts == [i \in 1..Len(kept) |-> kept[i].k \o EQ \o ToStr(kept[i].v)]
      queryString == Join(queryParts, AMP)
  IN  queryString \o KEY_SUFFIX \o ToStr(secretKey)

generateSignature(data, secretKey) ==
  toUpperCase(md5hex(generateSignature_stringToSign(data, secretKey)))

\* md5_sign of src/unnamed/part_003 ("converted from PHP"): every field is
\* kept, the sign field and the empty ones included
md5_sign_php_stringToSign(data, key) ==
  LET sortedKeys == Sort(ObjectKeys(data))
      sortedData == PickInOrder(data, sortedKeys)
      string == decodeURIComponent(URLSearchParamsToString(sortedData))
  IN  trim(string) \o KEY_SUFFIX \o ToStr(key)

md5_sign_php(data, key) == toUpperCase(md5hex(md5_sign_php_stringToSign(data, key)))

(***************************************************************************)
(* The deployments and their configuration.                                *)
(***************************************************************************)
\* one deployment per source file that serves the LG-Pay endpoints
Variants == { "server", "part_000", "part_001", "part_002", "part_003" }

\* the signer functions each file defines
SignersOf(v) ==
  CASE v = "server" -> { "md5_sign", "md5_sign_v2" }
    [] v = "part_003" -> { "md5_sign_php" }
    [] OTHER -> { "generateSignature" }

\* the signer a file uses for the orders it sends and the callbacks it checks
SignerOf(v) ==
  CASE v = "server" -> "md5_sign"
    [] v = "part_003" -> "md5_sign_php"
    [] OTHER -> "generateSignature"

Apply(fn, data, key) ==
  CASE fn = "md5_sign" -> md5_sign(data, key)
    [] fn = "md5_sign_v2" -> md5_sign_v2(data, key)
    [] fn = "generateSignature" -> generateSignature(data, key)
    [] fn = "md5_sign_php" -> md5_sign_php(data, key)

ApplyString(fn, data, key) ==
  CASE fn = "md5_sign" -> md5_sign_stringToSign(data, key)
    [] fn = "md5_sign_v2" -> md5_sign_v2_stringToSign(data, key)
    [] fn = "generateSignature" -> generateSignature_stringToSign(data, key)
    [] fn = "md5_sign_php" -> md5_sign_php_stringToSign(data, key)

\* the text arguments a signer passes to console.log, in order: the key
\* ('Secret key:'), the query string and the string to sign for md5_sign
\* and generateSignature, the string to sign alone for md5_sign_v2 and for
\* the md5_sign of part_003 (arguments that are objects or the token are
\* left out: none of them is made from the key)
Console(fn, data, key) ==
  LET stringToSign == ApplyString(fn, data, key)
      queryString == SubSeq(stringToSign, 1,
                            Len(stringToSign) - Len(KEY_SUFFIX \o ToStr(key)))
  IN  IF fn \in { "md5_sign", "generateSignature" }
        THEN << ToStr(key), queryString, stringToSign >>
        ELSE << stringToSign >>

\* two secrets, one a prefix of the other
SECRET1 == << "k" >>
SECRET2 == << "k", "2" >>
APP_ID == << "m", "1" >>
TRADE_TYPE == << "t", "1" >>
NOTIFY_URL == << "h", ":", "/", "n" >>

MkEnv(app, key, trade, notify) ==
  [LGPAY_APP_ID |-> app, LGPAY_SECRET_KEY |-> key,
   LGPAY_TRADE_TYPE |-> trade, LGPAY_NOTIFY_URL |-> notify]

\* process.env after dotenv: a variable is a string, or undefined when unset
EnvConfigs ==
  { MkEnv(Str(APP_ID), Str(SECRET1), Str(TRADE_TYPE), Str(NOTIFY_URL)),
    MkEnv(Str(APP_ID), Str(SECRET2), Str(TRADE_TYPE), Str(NOTIFY_URL)),
    MkEnv(Str(APP_ID), Undefined, Str(TRADE_TYPE), Str(NOTIFY_URL)),
    MkEnv(Str(APP_ID), Str(<< >>), Str(TRADE_TYPE), Str(NOTIFY_URL)),
    MkEnv(Undefined, Str(SECRET1), Str(TRADE_TYPE), Str(NOTIFY_URL)),
    MkEnv(Str(APP_ID), Str(SECRET1), Undefined, Str(NOTIFY_URL)),
    MkEnv(Str(APP_ID), Str(SECRET1), Str(TRADE_TYPE), Undefined) }

(***************************************************************************)
(* The inputs: flat maps of at most MaxFields fields.                      *)
(***************************************************************************)
Names == { K_a, K_b, K_sign }

\* values a caller of a signer can pass
Vals == { Undefined, Null, Str(<< >>), Str(<< "1" >>), Str(<< "x", " ", "y" >>) }

\* values a parsed JSON or form body can hold
BodyVals == Vals \ { Undefined }

ObjectsOver(vals) ==
  { o \in UNION { [1..n -> [k : Names, v : vals]] : n \in 0..MaxFields } :
      \A i, j \in 1..Len(o) : i # j => o[i].k # o[j].k }

(***************************************************************************)
(* State.                                                                  *)
(***************************************************************************)
VARIABLES
  variant,     \* the source file that is deployed
  env,         \* process.env
  call,        \* the last direct invocation of a signer function
  whPc,        \* the webhook request: "idle", "received" or "done"
  notifyData,  \* req.body of the webhook request
  whOrigin,    \* how the notification was made (history)
  whRes,       \* the webhook's response
  clock,       \* Date.now()
  orPc,        \* the create-order request: "idle", "received", "await1",
               \* "await2" (the retry of src/server.js) or "done"
  reqAmount,   \* req.body.amount
  reqIp,       \* req.ip
  sent,        \* the orders posted to the gateway for this request
  keptSignature2,  \* the alternative signature src/server.js keeps
  received,    \* what came back from each call of the gateway (history)
  issued,      \* the order_sn of every order built so far (history)
  orRes,       \* the response to the create-order request
  rzSecret,    \* process.env.RAZORPAY_KEY_SECRET of src/api/server.js
  rzPc,        \* the request to src/api/server.js: "idle", "received",
               \* "await" (razorpay.orders.create is running) or "done"
  rzRoute,     \* its route: "create-order" or "verify-payment"
  rzBody,      \* req.body: amount, order_id, payment_id, signature
  rzOptions,   \* options.amount given to razorpay.orders.create
  rzRes        \* the response to it

cfgVars == << variant, env >>
whVars == << whPc, notifyData, whOrigin, whRes >>
orVars == << clock, orPc, reqAmount, reqIp, sent, keptSignature2, received, issued,
            orRes >>
rzVars == << rzSecret, rzPc, rzRoute, rzBody, rzOptions, rzRes >>
vars == << variant, env, call, whPc, notifyData, whOrigin, whRes,
           clock, orPc, reqAmount, reqIp, sent, keptSignature2, received, issued,
           orRes, rzSecret, rzPc, rzRoute, rzBody, rzOptions, rzRes >>

NoCall == [pc |-> "none", fn |-> "none", data |-> << >>, key |-> Undefined,
           string |-> << >>, token |-> Undefined, log |-> << >>]

NoOrigin == [kind |-> "none", m |-> << >>, k |-> Undefined]

NoRes == [status |-> 0, text |-> "none", processed |-> FALSE, handed |-> << >>,
          computed |-> FALSE]

\* res.status(status).json({ success, message, ... }) of create-order
NoDetail == [minimumAmount |-> 0, currentAmount |-> [nan |-> TRUE, c |-> 0],
             difference |-> [nan |-> TRUE, c |-> 0]]

OrderRes(status, success, message) ==
  [status |-> status, success |-> success, message |-> message,
   gatewayMsg |-> Undefined, order_sn |-> Undefined, pay_url |-> Undefined,
   error |-> Undefined, detail |-> NoDetail, response |-> Undefined]

NoOrderRes == OrderRes(0, FALSE, "none")

\* src/api/server.js has no request in hand
NoRazorBody ==
  [amount |-> Undefined, order_id |-> Undefined, payment_id |-> Undefined,
   signature |-> Undefined]

NoRazorOptions == [kind |-> "none", m |-> << >>, x |-> 0]

NoRazorRes == [status |-> 0, success |-> FALSE, message |-> "none", computed |-> FALSE]

KEY_SECRET == << "r", "k" >>

RazorIdle ==
  /\ rzPc = "idle"
  /\ rzRoute = "none"
  /\ rzBody = NoRazorBody
  /\ rzOptions = NoRazorOptions
  /\ rzRes = NoRazorRes

Init ==
  /\ rzSecret = Str(KEY_SECRET)
  /\ RazorIdle
  /\ variant \in Variants
  /\ env \in EnvConfigs
  /\ call = NoCall
  /\ whPc = "idle"
  /\ notifyData = << >>
  /\ whOrigin = NoOrigin
  /\ whRes = NoRes
  /\ clock = 0
  /\ orPc = "idle"
  /\ reqAmount = Undefined
  /\ reqIp = Undefined
  /\ sent = << >>
  /\ keptSignature2 = Undefined
  /\ received = << >>
  /\ issued = { }
  /\ orRes = NoOrderRes

(***************************************************************************)
(* A direct invocation of one of the deployed file's signers, with the     *)
(* configured secret (every call site passes process.env.LGPAY_SECRET_KEY).*)
(***************************************************************************)
CallSigner ==
  /\ call.pc = "none"
  /\ \E fn \in SignersOf(variant), data \in ObjectsOver(Vals) :
      /\ call' = [pc |-> "done", fn |-> fn, data |-> data,
                  key |-> env.LGPAY_SECRET_KEY,
                  string |-> ApplyString(fn, data, env.LGPAY_SECRET_KEY),
                  token |-> Apply(fn, data, env.LGPAY_SECRET_KEY),
                  log |-> Console(fn, data, env.LGPAY_SECRET_KEY)]
      /\ UNCHANGED << cfgVars, rzVars, whVars, orVars >>

\* the caller takes the token; the next invocation can start
CallReturn ==
  /\ call.pc = "done"
  /\ call' = NoCall
  /\ UNCHANGED << cfgVars, rzVars, whVars, orVars >>

SignerNext == CallSigner \/ CallReturn

SignerSpec == Init /\ [][SignerNext]_vars

(***************************************************************************)
(* POST /api/webhook.  Each handler answers with a status and a plain text *)
(* body; processed tells that the handler went past verification to the    *)
(* point where the notification is logged as valid and handed on.          *)
(***************************************************************************)
Respond(status, text, processed) ==
  [status |-> status, text |-> text, processed |-> processed, handed |-> << >>,
   computed |-> FALSE]

\* the handler has called the signer on its way to the response res
Computing(res) == [res EXCEPT !.computed = TRUE]

\* a handler that verifies on the received object itself, so that the map
\* it hands on (req.body) has lost its sign field
Valid_withoutSign(body) ==
  [Respond(200, "success", TRUE) EXCEPT !.handed = << DeleteKey(body, K_sign) >>]

\* res.send('success') after verification: the notification there is for
\* processing is notifyData, req.body itself, dataForSign being a copy of
\* it (src/server.js and part_003 log it as 'Valid webhook processed')
Valid(body) ==
  [Respond(200, "success", TRUE) EXCEPT !.handed = << body >>]

\* the handler of src/server.js without its test of the secret
webhook_server_unchecked(e, body) ==
  LET secret_key == e.LGPAY_SECRET_KEY
      receivedSign == Get(body, K_sign)
      dataForSign == DeleteKey(body, K_sign)
      expectedSign == md5_sign(dataForSign, secret_key)
  IN  IF Truthy(Get(body, K_sign))
      THEN Computing(IF receivedSign # expectedSign
                     THEN Respond(400, "Invalid signature", FALSE)
                     ELSE Valid(body))
      ELSE Valid(body)

\* src/server.js
webhook_server(e, body) ==
  LET secret_key == e.LGPAY_SECRET_KEY
      receivedSign == Get(body, K_sign)
      dataForSign == DeleteKey(body, K_sign)
      expectedSign == md5_sign(dataForSign, secret_key)
  IN  IF ~Truthy(secret_key) THEN Respond(500, "Configuration error", FALSE)
      ELSE IF Truthy(Get(body, K_sign))
           THEN Computing(IF receivedSign # expectedSign
                          THEN Respond(400, "Invalid signature", FALSE)
                          ELSE Valid(body))
      ELSE Valid(body)

\* the handler of part_000 comparing the tokens without regard to case
webhook_generate_caseless(e, body) ==
  LET LGPAY_SECRET_KEY == e.LGPAY_SECRET_KEY
      receivedSign == toUpperCase(Get(body, K_sign))
      dataForSign == DeleteKey(body, K_sign)
      expectedSign == generateSignature(dataForSign, LGPAY_SECRET_KEY)
  IN  IF ~Truthy(LGPAY_SECRET_KEY) THEN Respond(500, "Configuration error", FALSE)
      ELSE IF Truthy(Get(body, K_sign))
           THEN Computing(IF receivedSign # expectedSign
                          THEN Respond(400, "Invalid signature", FALSE)
                          ELSE Valid(body))
      ELSE Valid(body)

\* src/unnamed/part_000 (the same text in part_001 and part_002)
webhook_generate(e, body) ==
  LET LGPAY_SECRET_KEY == e.LGPAY_SECRET_KEY
      receivedSign == Get(body, K_sign)
      dataForSign == DeleteKey(body, K_sign)
      expectedSign == generateSignature(dataForSign, LGPAY_SECRET_KEY)
  IN  IF ~Truthy(LGPAY_SECRET_KEY) THEN Respond(500, "Configuration error", FALSE)
      ELSE IF Truthy(Get(body, K_sign))
           THEN Computing(IF receivedSign # expectedSign
                          THEN Respond(400, "Invalid signature", FALSE)
                          ELSE Valid(body))
      ELSE Valid(body)

\* the part_003 handler recomputing over the body as received, sign included
webhook_php_keepsSign(e, body) ==
  LET secret_key == e.LGPAY_SECRET_KEY
      receivedSign == Get(body, K_sign)
      expectedSign == md5_sign_php(body, secret_key)
  IN  IF ~Truthy(secret_key) THEN Respond(500, "Configuration error", FALSE)
      ELSE IF Len(ObjectKeys(body)) = 0 THEN Respond(400, "Empty webhook data", FALSE)
      ELSE IF Truthy(Get(body, K_sign))
           THEN Computing(IF receivedSign # expectedSign
                          THEN Respond(400, "Invalid signature", FALSE)
                          ELSE Valid(body))
      ELSE Valid(body)

\* src/unnamed/part_003: an empty body is refused first
webhook_php(e, body) ==
  LET secret_key == e.LGPAY_SECRET_KEY
      receivedSign == Get(body, K_sign)
      dataForSign == DeleteKey(body, K_sign)
      expectedSign == md5_sign_php(dataForSign, secret_key)
  IN  IF ~Truthy(secret_key) THEN Respond(500, "Configuration error", FALSE)
      ELSE IF Len(ObjectKeys(body)) = 0 THEN Respond(400, "Empty webhook data", FALSE)
      ELSE IF Truthy(Get(body, K_sign))
           THEN Computing(IF receivedSign # expectedSign
                          THEN Respond(400, "Invalid signature", FALSE)
                          ELSE Valid(body))
      ELSE Valid(body)

\* handlers that keep the notification in a variable of the module, which a
\* create-order request in flight has overwritten with its order
webhook_sharedBuffer(v, e, body) ==
  LET notification == IF Len(sent) > 0 THEN sent[Len(sent)] ELSE body
  IN  CASE v = "server" -> webhook_server(e, notification)
        [] v = "part_003" -> webhook_php(e, notification)
        [] OTHER -> webhook_generate(e, notification)

webhook(v, e, body) ==
  CASE v = "server" -> webhook_server(e, body)
    [] v = "part_003" -> webhook_php(e, body)
    [] OTHER -> webhook_generate(e, body)

\* the secrets a sender of notifications may hold
SenderSecrets == { Str(SECRET1), Str(SECRET2) }

\* String.prototype.toLowerCase of a token
toLowerCase(v) == IF v.t = "HEX" THEN [t |-> "hex", s |-> v.s] ELSE v

\* The gateway, holding secret k, signs the notification m with the scheme
\* of the deployed file and posts m with the token attached under sign, as
\* the signer renders it or in lower case.
GatewayNotifyFrom(maps) ==
  /\ whPc = "idle"
  /\ \E m \in maps, k \in SenderSecrets, lower \in BOOLEAN :
      /\ ~HasKey(m, K_sign)
      /\ notifyData' = SetKey(m, K_sign,
                              IF lower THEN toLowerCase(Apply(SignerOf(variant), m, k))
                              ELSE Apply(SignerOf(variant), m, k))
      /\ whOrigin' = [kind |-> IF lower THEN "lowercase" ELSE "signed", m |-> m, k |-> k]
      /\ whPc' = "received"
      /\ UNCHANGED << cfgVars, rzVars, call, whRes, orVars >>

GatewayNotify == GatewayNotifyFrom(ObjectsOver(BodyVals))

\* Anyone posts any body: no sign field, an empty one, or one that is no
\* token at all.
PostNotifyFrom(bodies) ==
  /\ whPc = "idle"
  /\ \E body \in bodies :
      /\ notifyData' = body
      /\ whOrigin' = [kind |-> "raw", m |-> body, k |-> Undefined]
      /\ whPc' = "received"
      /\ UNCHANGED << cfgVars, rzVars, call, whRes, orVars >>

PostNotify == PostNotifyFrom(ObjectsOver(BodyVals))

\* the handler runs to its response
Webhook ==
  /\ whPc = "received"
  /\ whRes' = webhook(variant, env, notifyData)
  /\ whPc' = "done"
  /\ UNCHANGED << cfgVars, rzVars, call, notifyData, whOrigin, orVars >>

\* the response is sent; the next request can come
WebhookDone ==
  /\ whPc = "done"
  /\ whPc' = "idle"
  /\ notifyData' = << >>
  /\ whOrigin' = NoOrigin
  /\ whRes' = NoRes
  /\ UNCHANGED << cfgVars, rzVars, call, orVars >>

WebhookNext == GatewayNotify \/ PostNotify \/ Webhook \/ WebhookDone

WebhookSpec == Init /\ [][WebhookNext]_vars

(***************************************************************************)
(* JavaScript numbers of the amounts.  A number is [nan, c]: c counts      *)
(* hundredths, so that an amount with at most two decimals and its product *)
(* by 100 are exact; texts with more than two decimals are not among the   *)
(* inputs of the model.                                                    *)
(***************************************************************************)
NaN == [nan |-> TRUE, c |-> 0]
Number(c) == [nan |-> FALSE, c |-> c]

IsDigit(c) == Code(c) >= 48 /\ Code(c) <= 57

\* the number of digits s starts with
RECURSIVE DigitsLen(_)
DigitsLen(s) == IF Len(s) > 0 /\ IsDigit(Head(s)) THEN 1 + DigitsLen(Tail(s)) ELSE 0

\* the value of a run of digits
RECURSIVE DigitsValue(_)
DigitsValue(s) ==
  IF Len(s) = 0 THEN 0
  ELSE 10 * DigitsValue(SubSeq(s, 1, Len(s) - 1)) + (Code(s[Len(s)]) - 48)

\* The longest prefix of s that is a decimal literal, [sign] digits [. digits]
\* or [sign] . digits: its length (0 when there is none) and its value.
DecimalPrefix(s) ==
  LET signLen == IF Len(s) > 0 /\ Head(s) \in { "-", "+" } THEN 1 ELSE 0
      neg == Len(s) > 0 /\ Head(s) = "-"
      body == SubSeq(s, signLen + 1, Len(s))
      intLen == DigitsLen(body)
      afterInt == SubSeq(body, intLen + 1, Len(body))
      hasDot == Len(afterInt) > 0 /\ Head(afterInt) = "."
      fracLen == IF hasDot THEN DigitsLen(Tail(afterInt)) ELSE 0
      frac == IF hasDot THEN SubSeq(Tail(afterInt), 1, fracLen) ELSE << >>
      hundredths == IF fracLen = 0 THEN 0
                    ELSE IF fracLen = 1 THEN 10 * DigitsValue(frac)
                    ELSE DigitsValue(SubSeq(frac, 1, 2))
      magnitude == 100 * DigitsValue(SubSeq(body, 1, intLen)) + hundredths
      dotLen == IF hasDot /\ (intLen > 0 \/ fracLen > 0) THEN 1 + fracLen ELSE 0
  IN  IF intLen = 0 /\ fracLen = 0 THEN [len |-> 0, c |-> 0]
      ELSE [len |-> signLen + intLen + dotLen,
            c |-> IF neg THEN 0 - magnitude ELSE magnitude]

\* parseFloat(v): the argument becomes a string, leading blanks are skipped
\* and the longest decimal prefix is read; NaN when there is none
parseFloat(v) ==
  LET s == TrimStart(ToStr(v))
      p == DecimalPrefix(s)
  IN  IF p.len = 0 THEN NaN ELSE Number(p.c)

\* Number(v), the conversion behind isNaN(v) and v <= 0: undefined is NaN,
\* null is 0, a blank string is 0, a string must be a literal as a whole
ToNumber(v) ==
  CASE v.t = "undef" -> NaN
    [] v.t = "null" -> Number(0)
    [] OTHER ->
         LET s == trim(v.s)
             p == DecimalPrefix(s)
         IN  IF Len(s) = 0 /\ v.t = "str" THEN Number(0)
             ELSE IF p.len > 0 /\ p.len = Len(s) THEN Number(p.c)
             ELSE NaN

isNaN(v) == ToNumber(v).nan

\* v <= 0: false when v is NaN
LessEqZero(v) == ~ToNumber(v).nan /\ ToNumber(v).c <= 0

\* Math.round(x * 100) for x exact in hundredths
RoundTimes100(x) == IF x.nan THEN NaN ELSE Number(100 * x.c)

RECURSIVE NatToStr(_)
NatToStr(n) ==
  IF n < 10 THEN << CharOf(48 + n) >>
  ELSE NatToStr(n \div 10) \o << CharOf(48 + (n % 10)) >>

\* Number.prototype.toString of an integer held in hundredths, or of NaN
IntegerToString(x) ==
  IF x.nan THEN << "N", "a", "N" >>
  ELSE IF x.c < 0 THEN << "-" >> \o NatToStr((0 - x.c) \div 100)
  ELSE NatToStr(x.c \div 100)

(***************************************************************************)
(* POST /api/create-order, up to the call of the gateway.                  *)
(***************************************************************************)
K_app_id == << "a", "p", "p", "_", "i", "d" >>
K_trade_type == << "t", "r", "a", "d", "e", "_", "t", "y", "p", "e" >>
K_order_sn == << "o", "r", "d", "e", "r", "_", "s", "n" >>
K_money == << "m", "o", "n", "e", "y" >>
K_notify_url == << "n", "o", "t", "i", "f", "y", "_", "u", "r", "l" >>
K_ip == << "i", "p" >>
K_remark == << "r", "e", "m", "a", "r", "k" >>
LOOPBACK == << "1", "2", "7", ".", "0", ".", "0", ".", "1" >>
ORDER_REMARK == << "O", "r", "d", "e", "r", " ", "p", "a", "y", "m", "e", "n", "t" >>

\* the minimum order amount of src/unnamed/part_000, in rupees
LGPAY_MIN_AMOUNT == 200

\* what the first part of a handler ends in: a response, or an order sent
\* to the gateway with its signature (and, in src/server.js, the alternative
\* signature kept for the retry)
Answer(res) ==
  [transmit |-> FALSE, res |-> res, order |-> << >>,
   paisa |-> NaN, signature2 |-> Undefined]

Transmit(order, paisa, signature2) ==
  [transmit |-> TRUE, res |-> NoOrderRes, order |-> order,
   paisa |-> paisa, signature2 |-> signature2]

\* !app_id || !secret_key || !trade_type
ConfigMissing(e) ==
  \/ ~Truthy(e.LGPAY_APP_ID)
  \/ ~Truthy(e.LGPAY_SECRET_KEY)
  \/ ~Truthy(e.LGPAY_TRADE_TYPE)

\* the object literal of the order, in the order its fields are written;
\* order_sn is "p" + Date.now(), ip is req.ip || "127.0.0.1"
OrderData(e, money, ip, now) ==
  << [k |-> K_app_id, v |-> e.LGPAY_APP_ID],
     [k |-> K_trade_type, v |-> e.LGPAY_TRADE_TYPE],
     [k |-> K_order_sn, v |-> Str(<< "p" >> \o NatToStr(now))],
     [k |-> K_money, v |-> money],
     [k |-> K_notify_url, v |-> e.LGPAY_NOTIFY_URL],
     [k |-> K_ip, v |-> IF Truthy(ip) THEN ip ELSE Str(LOOPBACK)],
     [k |-> K_remark, v |-> Str(ORDER_REMARK)] >>

\* src/server.js
create_order_server(e, amount, ip, now) ==
  LET amountInPaisa == RoundTimes100(parseFloat(amount))
      orderData == OrderData(e, Str(IntegerToString(amountInPaisa)), ip, now)
      signature1 == md5_sign(orderData, e.LGPAY_SECRET_KEY)
      signature2 == md5_sign_v2(orderData, e.LGPAY_SECRET_KEY)
  IN  IF ~Truthy(amount) THEN Answer(OrderRes(400, FALSE, "Amount is required"))
      ELSE IF ConfigMissing(e)
           THEN Answer(OrderRes(500, FALSE, "LG-Pay configuration missing"))
      ELSE Transmit(SetKey(orderData, K_sign, signature1), amountInPaisa, signature2)

\* part_000 refusing the minimum itself as well (<= in place of <)
create_order_min_inclusive(e, amount, ip, now) ==
  LET amountInRupees == parseFloat(amount)
      amountInPaisa == RoundTimes100(amountInRupees)
      orderData == OrderData(e, Str(IntegerToString(amountInPaisa)), ip, now)
      signature == generateSignature(orderData, e.LGPAY_SECRET_KEY)
  IN  IF ~Truthy(amount) \/ isNaN(amount) \/ LessEqZero(amount)
      THEN Answer(OrderRes(400, FALSE, "Valid amount is required"))
      ELSE IF ~amountInRupees.nan /\ amountInRupees.c <= 100 * LGPAY_MIN_AMOUNT
           THEN Answer([OrderRes(400, FALSE, "Minimum order amount") EXCEPT
                          !.detail = [minimumAmount |-> LGPAY_MIN_AMOUNT,
                                      currentAmount |-> amountInRupees,
                                      difference |-> Number(100 * LGPAY_MIN_AMOUNT
                                                              - amountInRupees.c)]])
      ELSE IF ConfigMissing(e)
           THEN Answer(OrderRes(500, FALSE, "LG-Pay configuration missing"))
      ELSE Transmit(SetKey(orderData, K_sign, signature), amountInPaisa, Undefined)

\* src/unnamed/part_000: amount validation and the minimum of 200 rupees
create_order_min(e, amount, ip, now) ==
  LET amountInRupees == parseFloat(amount)
      amountInPaisa == RoundTimes100(amountInRupees)
      orderData == OrderData(e, Str(IntegerToString(amountInPaisa)), ip, now)
      signature == generateSignature(orderData, e.LGPAY_SECRET_KEY)
  IN  IF ~Truthy(amount) \/ isNaN(amount) \/ LessEqZero(amount)
      THEN Answer(OrderRes(400, FALSE, "Valid amount is required"))
      ELSE IF ~amountInRupees.nan /\ amountInRupees.c < 100 * LGPAY_MIN_AMOUNT
           THEN Answer([OrderRes(400, FALSE, "Minimum order amount") EXCEPT
                          !.detail = [minimumAmount |-> LGPAY_MIN_AMOUNT,
                                      currentAmount |-> amountInRupees,
                                      difference |-> Number(100 * LGPAY_MIN_AMOUNT
                                                              - amountInRupees.c)]])
      ELSE IF ConfigMissing(e)
           THEN Answer(OrderRes(500, FALSE, "LG-Pay configuration missing"))
      ELSE Transmit(SetKey(orderData, K_sign, signature), amountInPaisa, Undefined)

\* part_001 signing the order with the default ip and writing req.ip into
\* the order after the signature is attached
create_order_nomin_ipAfterSigning(e, amount, ip, now) ==
  LET amountInRupees == parseFloat(amount)
      amountInPaisa == RoundTimes100(amountInRupees)
      orderData == OrderData(e, Str(IntegerToString(amountInPaisa)), Undefined, now)
      signature == generateSignature(orderData, e.LGPAY_SECRET_KEY)
  IN  IF ~Truthy(amount) \/ isNaN(amount) \/ LessEqZero(amount)
      THEN Answer(OrderRes(400, FALSE, "Amount must be a positive number"))
      ELSE IF ConfigMissing(e)
           THEN Answer(OrderRes(500, FALSE, "LG-Pay configuration missing"))
      ELSE Transmit(SetKey(SetKey(orderData, K_sign, signature), K_ip,
                           IF Truthy(ip) THEN ip ELSE Str(LOOPBACK)),
                    amountInPaisa, Undefined)

\* src/unnamed/part_001: amount validation, no minimum
create_order_nomin(e, amount, ip, now) ==
  LET amountInRupees == parseFloat(amount)
      amountInPaisa == RoundTimes100(amountInRupees)
      orderData == OrderData(e, Str(IntegerToString(amountInPaisa)), ip, now)
      signature == generateSignature(orderData, e.LGPAY_SECRET_KEY)
  IN  IF ~Truthy(amount) \/ isNaN(amount) \/ LessEqZero(amount)
      THEN Answer(OrderRes(400, FALSE, "Amount must be a positive number"))
      ELSE IF ConfigMissing(e)
           THEN Answer(OrderRes(500, FALSE, "LG-Pay configuration missing"))
      ELSE Transmit(SetKey(orderData, K_sign, signature), amountInPaisa, Undefined)

\* part_002 without its configuration check
create_order_simple_unchecked(e, amount, ip, now) ==
  LET amountInPaisa == RoundTimes100(parseFloat(amount))
      orderData == OrderData(e, Str(IntegerToString(amountInPaisa)), ip, now)
      signature == generateSignature(orderData, e.LGPAY_SECRET_KEY)
  IN  IF ~Truthy(amount) THEN Answer(OrderRes(400, FALSE, "Amount is required"))
      ELSE Transmit(SetKey(orderData, K_sign, signature), amountInPaisa, Undefined)

\* src/unnamed/part_002
create_order_simple(e, amount, ip, now) ==
  LET amountInPaisa == RoundTimes100(parseFloat(amount))
      orderData == OrderData(e, Str(IntegerToString(amountInPaisa)), ip, now)
      signature == generateSignature(orderData, e.LGPAY_SECRET_KEY)
  IN  IF ~Truthy(amount) THEN Answer(OrderRes(400, FALSE, "Amount is required"))
      ELSE IF ConfigMissing(e)
           THEN Answer(OrderRes(500, FALSE, "LG-Pay configuration missing"))
      ELSE Transmit(SetKey(orderData, K_sign, signature), amountInPaisa, Undefined)

\* src/unnamed/part_003: money stays a number
create_order_php(e, amount, ip, now) ==
  LET amountInPaisa == RoundTimes100(parseFloat(amount))
      data == OrderData(e, Num(IntegerToString(amountInPaisa)), ip, now)
  IN  IF ~Truthy(amount) THEN Answer(OrderRes(400, FALSE, "Amount is required"))
      ELSE IF ConfigMissing(e)
           THEN Answer(OrderRes(500, FALSE, "LG-Pay configuration missing"))
      ELSE Transmit(SetKey(data, K_sign, md5_sign_php(data, e.LGPAY_SECRET_KEY)),
                    amountInPaisa, Undefined)

create_order(v, e, amount, ip, now) ==
  CASE v = "server" -> create_order_server(e, amount, ip, now)
    [] v = "part_000" -> create_order_min(e, amount, ip, now)
    [] v = "part_001" -> create_order_nomin(e, amount, ip, now)
    [] v = "part_002" -> create_order_simple(e, amount, ip, now)
    [] v = "part_003" -> create_order_php(e, amount, ip, now)

\* axios.post(url, new URLSearchParams(orderData)): the form body sent
FormBody(orderData) == URLSearchParamsToString(orderData)

(***************************************************************************)
(* POST /api/create-order, from the gateway's answer on.  The answer       *)
(* (response.data) is an object, held as the value [t |-> "obj", o |->     *)
(* entries], or a string.                                                  *)
(***************************************************************************)
K_status == << "s", "t", "a", "t", "u", "s" >>
K_msg == << "m", "s", "g" >>
K_message == << "m", "e", "s", "s", "a", "g", "e" >>
K_success == << "s", "u", "c", "c", "e", "s", "s" >>
K_code == << "c", "o", "d", "e" >>
K_result == << "r", "e", "s", "u", "l", "t" >>
K_data == << "d", "a", "t", "a" >>
K_pay_url == << "p", "a", "y", "_", "u", "r", "l" >>
K_payment_url == << "p", "a", "y", "m", "e", "n", "t", "_", "u", "r", "l" >>
K_payUrl == << "p", "a", "y", "U", "r", "l" >>
K_url == << "u", "r", "l" >>
K_redirect_url == << "r", "e", "d", "i", "r", "e", "c", "t", "_", "u", "r", "l" >>
K_qr_url == << "q", "r", "_", "u", "r", "l" >>
SIGN_ERROR == << "S", "i", "g", "n", " ", "E", "r", "r", "o", "r" >>
MINIMUM_AMOUNT == << "m", "i", "n", "i", "m", "u", "m", " ", "a", "m", "o", "u", "n", "t" >>
HTTP == << "h", "t", "t", "p" >>
SUCCESS == << "s", "u", "c", "c", "e", "s", "s" >>
NOT_A_FUNCTION ==
  << "n", "o", "t", " ", "a", " ", "f", "u", "n", "c", "t", "i", "o", "n" >>

Obj(entries) == [t |-> "obj", s |-> << >>, o |-> entries]
True == [t |-> "bool", s |-> << "t", "r", "u", "e" >>]

\* r.name: undefined on a string and for a property that is not there
Field(r, name) == IF r.t = "obj" THEN Get(r.o, name) ELSE Undefined

\* r.data?.name
DataField(r, name) == Field(Field(r, K_data), name)

\* a || b
Or(a, b) == IF Truthy(a) THEN a ELSE b

\* String.prototype.includes
Includes(s, sub) ==
  \E i \in 0..(Len(s) - Len(sub)) : SubSeq(s, i + 1, i + Len(sub)) = sub

\* what the second part of a handler ends in: a response, or a second call
\* of the gateway with the order re-signed
\* a handler that ends after the gateway's answer without responding
Final_unanswered(res) == [retry |-> FALSE, res |-> NoOrderRes, order |-> << >>]

Final(res) == [retry |-> FALSE, res |-> res, order |-> << >>]
Retry(order) == [retry |-> TRUE, res |-> NoOrderRes, order |-> order]

\* res.json({ success: true, order_sn, response: { ..., pay_url } })
Created(order, paymentUrl) ==
  [OrderRes(200, TRUE, "created") EXCEPT
     !.order_sn = Get(order, K_order_sn), !.pay_url = paymentUrl]

\* res.json({ success: false, message, ... }) carrying the gateway's msg
Failed(message, gatewayMsg) ==
  [OrderRes(200, FALSE, message) EXCEPT !.gatewayMsg = gatewayMsg]

\* the body also holds the gateway's answer as it came (under response,
\* debug.lgPayResponse, debug.fullResponse or debug.originalResponse)
Carrying(res, lgPayResponse) == [res EXCEPT !.response = lgPayResponse]

\* a catch block that reports error.message alone
Caught_messageOnly(message, err) ==
  [OrderRes(500, FALSE, message) EXCEPT !.error = err.message]

\* the catch block: error.response?.data || error.message
Caught(message, err) ==
  [OrderRes(500, FALSE, message) EXCEPT !.error = Or(err.data, err.message)]

\* the function processSuccessResponse of src/server.js
processSuccessResponse(lgPayResponse, orderData) ==
  LET paymentUrl ==
        Or(Field(lgPayResponse, K_pay_url),
        Or(Field(lgPayResponse, K_payment_url),
        Or(Field(lgPayResponse, K_payUrl),
        Or(Field(lgPayResponse, K_url),
        Or(Field(lgPayResponse, K_redirect_url),
        Or(Field(lgPayResponse, K_qr_url),
        Or(DataField(lgPayResponse, K_pay_url),
           DataField(lgPayResponse, K_payment_url))))))))
  IN  IF Truthy(paymentUrl) THEN Carrying(Created(orderData, paymentUrl), lgPayResponse)
      ELSE Carrying(Failed("No payment URL received from LG-Pay", Undefined), lgPayResponse)

\* this.processSuccessResponse(...) as the handler of src/server.js calls
\* it: the handler is an arrow function of the module, its this is the
\* module's exports object, which has no such property, so the call throws
\* TypeError and the catch block answers.
this_processSuccessResponse(lgPayResponse, orderData) ==
  Caught("Order creation failed",
         [data |-> Undefined, message |-> Str(NOT_A_FUNCTION)])

\* a first answer after which the order is sent again as it is
reply_server_first_sameSign(r, orderData, signature2) ==
  IF Field(r, K_msg) = Str(SIGN_ERROR) \/ Field(r, K_status) = Num(<< "0" >>)
  THEN Retry(orderData)
  ELSE Final(this_processSuccessResponse(r, orderData))

\* src/server.js after the first answer of the gateway
reply_server_first(r, orderData, signature2) ==
  IF Field(r, K_msg) = Str(SIGN_ERROR) \/ Field(r, K_status) = Num(<< "0" >>)
  THEN Retry(SetKey(orderData, K_sign, signature2))
  ELSE Final(this_processSuccessResponse(r, orderData))

\* src/server.js after the answer to the retry
reply_server_retry(r, orderData) ==
  IF Field(r, K_msg) = Str(SIGN_ERROR)
  THEN Final(Carrying(Failed("Signature verification failed with both methods", Undefined), r))
  ELSE Final(this_processSuccessResponse(r, orderData))

\* lgPayResponse.pay_url || lgPayResponse.payment_url ||
\* lgPayResponse.data?.pay_url || lgPayResponse.data?.payment_url
PaymentUrl4(r) ==
  Or(Field(r, K_pay_url),
  Or(Field(r, K_payment_url),
  Or(DataField(r, K_pay_url), DataField(r, K_payment_url))))

UrlOrNone(r, orderData) ==
  IF Truthy(PaymentUrl4(r)) THEN Carrying(Created(orderData, PaymentUrl4(r)), r)
  ELSE Carrying(Failed("No payment URL received from LG-Pay", Undefined), r)

\* msg && msg.includes('minimum amount')
MentionsMinimum(msg) == Truthy(msg) /\ msg.t = "str" /\ Includes(msg.s, MINIMUM_AMOUNT)

\* src/unnamed/part_000
reply_min(r, orderData) ==
  LET msg == Field(r, K_msg)
  IN  IF Field(r, K_status) = Num(<< "0" >>)
      THEN IF msg = Str(SIGN_ERROR)
           THEN Final(Carrying(Failed("Payment gateway signature verification failed",
                                           Undefined), r))
           ELSE IF MentionsMinimum(msg)
                THEN Final(Failed("LG-Pay minimum amount requirement: <msg>", msg))
           ELSE IF Truthy(msg) THEN Final(Carrying(Failed("<msg>", msg), r))
           ELSE Final(Carrying(Failed("Payment gateway error", Undefined), r))
      ELSE Final(UrlOrNone(r, orderData))

\* src/unnamed/part_001
reply_nomin(r, orderData) ==
  LET msg == Field(r, K_msg)
  IN  IF Field(r, K_status) = Num(<< "0" >>)
      THEN IF MentionsMinimum(msg)
           THEN Final(Failed("LG-Pay gateway requirement: <msg>", msg))
           ELSE IF msg = Str(SIGN_ERROR)
                THEN Final(Carrying(Failed("Payment gateway signature verification failed",
                                           Undefined), r))
           ELSE IF Truthy(msg) THEN Final(Carrying(Failed("<msg>", msg), r))
           ELSE Final(Carrying(Failed("Payment gateway error", Undefined), r))
      ELSE Final(UrlOrNone(r, orderData))

\* src/unnamed/part_002
reply_simple(r, orderData) ==
  IF Field(r, K_status) = Num(<< "0" >>) /\ Field(r, K_msg) = Str(SIGN_ERROR)
  THEN Final(Carrying(Failed("LG-Pay signature verification failed", Undefined), r))
  ELSE Final(UrlOrNone(r, orderData))

\* src/unnamed/part_003
reply_php(r, data) ==
  LET isObject == r.t = "obj"
      isSuccess ==
        IF isObject
        THEN \/ Field(r, K_success) = True
             \/ Field(r, K_status) = Str(SUCCESS)
             \/ Field(r, K_code) = Num(<< "0" >>)
             \/ Field(r, K_code) = Str(<< "0" >>)
             \/ Field(r, K_result) = Str(SUCCESS)
        ELSE r.t = "str" /\ Includes(r.s, HTTP)
      paymentUrl ==
        IF isObject
        THEN Or(Field(r, K_pay_url),
             Or(Field(r, K_payment_url),
             Or(Field(r, K_payUrl),
             Or(Field(r, K_url),
             Or(Field(r, K_redirect_url), Field(r, K_qr_url))))))
        ELSE IF r.t = "str" /\ Includes(r.s, HTTP) THEN Str(trim(r.s))
        ELSE Null
      message ==
        IF isObject THEN Or(Field(r, K_message), Field(r, K_msg)) ELSE Undefined
  IN  IF isSuccess \/ Truthy(paymentUrl) THEN Final(Carrying(Created(data, paymentUrl), r))
      ELSE Final(Carrying(
             [(IF isObject /\ Truthy(message)
               THEN Failed("LG-Pay response unclear: <msg>", message)
               ELSE IF isObject
                    THEN Failed("LG-Pay response unclear: Order processed", Undefined)
               ELSE Failed("LG-Pay response unclear: Order created successfully", Undefined))
              EXCEPT !.order_sn = Get(data, K_order_sn)], r))

\* the part of the handler that runs when the gateway has answered; first
\* tells the answer to the first call from the answer to the retry
create_order_reply(v, first, r, orderData, signature2) ==
  CASE v = "server" /\ first -> reply_server_first(r, orderData, signature2)
    [] v = "server" /\ ~first -> reply_server_retry(r, orderData)
    [] v = "part_000" -> reply_min(r, orderData)
    [] v = "part_001" -> reply_nomin(r, orderData)
    [] v = "part_002" -> reply_simple(r, orderData)
    [] v = "part_003" -> reply_php(r, orderData)

\* the catch block of each handler
create_order_catch(v, err) ==
  CASE v \in { "part_000", "part_001" } ->
         Caught("Order creation failed due to network or server error", err)
    [] OTHER -> Caught("Order creation failed", err)

(***************************************************************************)
(* The create-order request, its inputs and the gateway.                   *)
(***************************************************************************)
\* req.body.amount: missing, null, numbers and strings
AmountInputs ==
  { Undefined, Null,
    Num(<< "0" >>), Num(<< "-", "5" >>), Num(<< "1", "5", "0" >>), Num(<< "2", "0", "0" >>),
    Str(<< >>), Str(<< "0" >>), Str(<< "-", "5" >>), Str(<< "a", "b", "c" >>),
    Str(<< "1", "5", "0" >>), Str(<< "1", "9", "9", ".", "5" >>), Str(<< "2", "5", "0" >>) }

ReqIps == { Undefined, Str(<< "9", ".", "9" >>) }

PAY_LINK == Str(<< "h", "t", "t", "p", ":", "u" >>)
One == Num(<< "1" >>)
Zero == Num(<< "0" >>)

\* answers of the gateway
GatewayReplies ==
  { Obj(<< [k |-> K_status, v |-> One], [k |-> K_pay_url, v |-> PAY_LINK] >>),
    Obj(<< [k |-> K_status, v |-> One], [k |-> K_payment_url, v |-> PAY_LINK] >>),
    Obj(<< [k |-> K_status, v |-> One], [k |-> K_payUrl, v |-> PAY_LINK] >>),
    Obj(<< [k |-> K_status, v |-> One], [k |-> K_url, v |-> PAY_LINK] >>),
    Obj(<< [k |-> K_status, v |-> One], [k |-> K_redirect_url, v |-> PAY_LINK] >>),
    Obj(<< [k |-> K_status, v |-> One], [k |-> K_qr_url, v |-> PAY_LINK] >>),
    Obj(<< [k |-> K_status, v |-> One],
           [k |-> K_data, v |-> Obj(<< [k |-> K_pay_url, v |-> PAY_LINK] >>)] >>),
    Obj(<< [k |-> K_status, v |-> One],
           [k |-> K_data, v |-> Obj(<< [k |-> K_payment_url, v |-> PAY_LINK] >>)] >>),
    Obj(<< [k |-> K_status, v |-> One] >>),
    Obj(<< [k |-> K_code, v |-> Zero] >>),
    Obj(<< [k |-> K_status, v |-> Zero], [k |-> K_msg, v |-> Str(SIGN_ERROR)] >>),
    Obj(<< [k |-> K_msg, v |-> Str(SIGN_ERROR)] >>),
    Obj(<< [k |-> K_status, v |-> Zero], [k |-> K_msg, v |-> Str(MINIMUM_AMOUNT)] >>),
    Obj(<< [k |-> K_status, v |-> Zero], [k |-> K_msg, v |-> Str(<< "b", "a", "d" >>)] >>),
    Obj(<< [k |-> K_status, v |-> Zero] >>),
    PAY_LINK,
    Str(<< "o", "k" >>) }

\* failures of the call: a timeout (no response), and an HTTP error status
\* with a body or with an empty one
TransportErrors ==
  { [data |-> Undefined, message |-> Str(<< "t", "i", "m", "e", "o", "u", "t" >>)],
    [data |-> Str(<< "d", "o", "w", "n" >>), message |-> Str(<< "E", "5", "0", "2" >>)],
    [data |-> Str(<< >>), message |-> Str(<< "E", "5", "0", "2" >>)] }

\* time passes between two requests
Tick ==
  /\ orPc = "idle"
  /\ clock < MaxClock
  /\ clock' = clock + 1
  /\ UNCHANGED << cfgVars, rzVars, call, whVars, orPc, reqAmount, reqIp, sent, keptSignature2,
                  received, issued, orRes >>

\* a client posts { amount }
OrderRequestFrom(amounts, ips) ==
  /\ orPc = "idle"
  /\ \E amount \in amounts, ip \in ips :
      /\ reqAmount' = amount
      /\ reqIp' = ip
      /\ orPc' = "received"
      /\ UNCHANGED << cfgVars, rzVars, call, whVars, clock, sent, keptSignature2, received,
                      issued, orRes >>

OrderRequest == OrderRequestFrom(AmountInputs, ReqIps)

\* the handler runs up to its response or to the call of the gateway
CreateOrder ==
  /\ orPc = "received"
  /\ \E step \in { create_order(variant, env, reqAmount, reqIp, clock) } :
         IF step.transmit
         THEN /\ sent' = << step.order >>
              /\ issued' = issued \cup { Get(step.order, K_order_sn) }
              /\ keptSignature2' = step.signature2
              /\ orPc' = "await1"
              /\ orRes' = orRes
         ELSE /\ orRes' = step.res
              /\ orPc' = "done"
              /\ UNCHANGED << sent, keptSignature2, issued >>
  /\ UNCHANGED << cfgVars, rzVars, call, whVars, clock, reqAmount, reqIp, received >>

\* the gateway answers and the handler goes on
GatewayReplyFrom(replies) ==
  /\ orPc \in { "await1", "await2" }
  /\ \E r \in replies :
      /\ \E step \in { create_order_reply(variant, orPc = "await1", r,
                                            sent[Len(sent)], keptSignature2) } :
             IF step.retry
             THEN /\ sent' = Append(sent, step.order)
                  /\ orPc' = "await2"
                  /\ orRes' = orRes
             ELSE /\ orRes' = step.res
                  /\ orPc' = "done"
                  /\ sent' = sent
      /\ received' = Append(received, [kind |-> "response", data |-> r,
                                        message |-> Undefined])
      /\ UNCHANGED << cfgVars, rzVars, call, whVars, clock, reqAmount, reqIp, keptSignature2,
                      issued >>

GatewayReply == GatewayReplyFrom(GatewayReplies)

\* the call of the gateway fails or times out: the catch block answers
GatewayFailFrom(errors) ==
  /\ orPc \in { "await1", "await2" }
  /\ \E err \in errors :
      /\ orRes' = create_order_catch(variant, err)
      /\ orPc' = "done"
      /\ received' = Append(received, [kind |-> "error", data |-> err.data,
                                        message |-> err.message])
      /\ UNCHANGED << cfgVars, rzVars, call, whVars, clock, reqAmount, reqIp, sent, keptSignature2,
                      issued >>

GatewayFail == GatewayFailFrom(TransportErrors)

\* the response is sent; the next request can come
OrderDone ==
  /\ orPc = "done"
  /\ orPc' = "idle"
  /\ reqAmount' = Undefined
  /\ reqIp' = Undefined
  /\ sent' = << >>
  /\ keptSignature2' = Undefined
  /\ received' = << >>
  /\ orRes' = NoOrderRes
  /\ UNCHANGED << cfgVars, rzVars, call, whVars, clock, issued >>

OrderNext == Tick \/ OrderRequest \/ CreateOrder \/ GatewayReply \/ GatewayFail \/ OrderDone

OrderSpec == Init /\ [][OrderNext]_vars

\* the handler takes the request it has received up to its response or to
\* the call of the gateway: the step CreateOrder, told by what it does to
\* the place of the handler
HandlerRuns == orPc = "received" /\ orPc' \in { "await1", "done" }

\* the call of the gateway comes back with an answer, an error or the
\* timeout of 30 s (axios timeout: 30000) and the handler goes on: the steps
\* GatewayReply and GatewayFail
GatewayReturns ==
  \/ orPc = "await1" /\ orPc' \in { "await2", "done" }
  \/ orPc = "await2" /\ orPc' = "done"

\* Node runs a handler that has a request, and every call of the gateway
\* returns; whether a client sends another request is left open
FairOrderSpec ==
  /\ Init
  /\ [][OrderNext]_vars
  /\ WF_orPc(HandlerRuns)
  /\ WF_orPc(GatewayReturns)

(***************************************************************************)
(* IEEE 754 double precision, as far as amount * 100 needs it: a positive  *)
(* number is 53 bits, the first of them 1, and the power of two of its     *)
(* last bit; the results of parsing, of * and of / are rounded to the      *)
(* nearest such number, ties to the even one.                              *)
(***************************************************************************)
Precision == 53

\* the binary digits of a natural number below 2^30, the most significant
\* first
BinaryOf(n) ==
  LET len == CHOOSE l \in 0..30 : n < 2 ^ l /\ (l = 0 \/ 2 ^ (l - 1) <= n)
  IN  [i \in 1..len |-> (n \div (2 ^ (len - i))) % 2]

\* the natural number of at most 30 binary digits
BitsValue(bits) ==
  LET n == Len(bits)
      \* the digit that counts 2^j
      Digit(j) == IF j < n THEN bits[n - j] ELSE 0
      Five(j) == Digit(j) + 2 * Digit(j + 1) + 4 * Digit(j + 2) + 8 * Digit(j + 3)
                   + 16 * Digit(j + 4)
  IN  Five(0) + 32 * Five(5) + 1024 * Five(10) + 32768 * Five(15) + 1048576 * Five(20)
        + 33554432 * Five(25)

\* 2^i modulo d, for i below 84 and d up to 1000
PowerMod(i, d) ==
  (((((2 ^ 21) % d) ^ (i \div 21)) % d) * ((2 ^ (i % 21)) % d)) % d

\* what is left of r / d after n binary digits, for r < d
Rest(r, d, n) == (r * PowerMod(n, d)) % d

\* the first n binary digits of r / d after the point, for r < d
FractionBits(r, d, n) == [i \in 1..n |-> (2 * Rest(r, d, i - 1)) \div d]

\* bits times a small natural number c, worked out twenty digits at a time
\* from the right: the digits of the product, as many as bits has and
\* those of the last carry before them
TimesSmall(bits, c) ==
  LET n == Len(bits)
      blocks == (n + 19) \div 20
      From(b) == IF n - 20 * b + 1 < 1 THEN 1 ELSE n - 20 * b + 1
      To(b) == n - 20 * (b - 1)
      Width(b) == To(b) - From(b) + 1
      total[b \in 1..blocks] ==
        c * BitsValue(SubSeq(bits, From(b), To(b)))
          + (IF b = 1 THEN 0 ELSE total[b - 1] \div (2 ^ Width(b - 1)))
  IN  BinaryOf(total[blocks] \div (2 ^ Width(blocks)))
        \o [i \in 1..n |-> (total[((n - i) \div 20) + 1] \div (2 ^ ((n - i) % 20))) % 2]

\* the digits of a number (a one among them) whose last digit counts 2^x,
\* with the exactness of what was cut after them, rounded to Precision
\* digits: to nearest, ties to even
RoundToPrecision(digits, x, inexactTail) ==
  LET first == CHOOSE i \in 1..Len(digits) :
                 digits[i] = 1 /\ \A j \in 1..(i - 1) : digits[j] = 0
      last == first + Precision - 1
      Digit(i) == IF i <= Len(digits) THEN digits[i] ELSE 0
      kept == [i \in 1..Precision |-> Digit(first + i - 1)]
      guard == Digit(last + 1)
      sticky == inexactTail \/ \E i \in (last + 2)..Len(digits) : digits[i] = 1
      up == guard = 1 /\ (sticky \/ kept[Precision] = 1)
      zeros == { i \in 1..Precision : kept[i] = 0 }
      \* kept + 1: the last 0 becomes 1 and the ones after it 0
      turn == CHOOSE i \in zeros : \A j \in zeros : j <= i
      xLast == x + (Len(digits) - last)
  IN  IF ~up THEN [m |-> kept, x |-> xLast]
      ELSE IF zeros = { } THEN [m |-> [i \in 1..Precision |-> IF i = 1 THEN 1 ELSE 0],
                                x |-> xLast + 1]
      ELSE [m |-> [i \in 1..Precision |->
                     IF i < turn THEN kept[i] ELSE IF i = turn THEN 1 ELSE 0],
            x |-> xLast]

\* the double nearest to k / d for naturals k > 0 and d > 0: what parsing
\* the decimal literal of k / 100 gives, and what k / 100 gives
NearestQuotient(k, d) ==
  LET whole == BinaryOf(k \div d)
      n == Precision + 10
  IN  RoundToPrecision(whole \o FractionBits(k % d, d, n), 0 - n,
                       Rest(k % d, d, n) # 0)

\* x * c for a double x and a small natural number c
TimesNatural(x, c) == RoundToPrecision(TimesSmall(x.m, c), x.x, FALSE)

\* Number.isInteger
IsInteger(x) == x.x >= 0 \/ \A i \in (Precision + x.x + 1)..Precision : i >= 1 => x.m[i] = 0

\* Math.floor of a double below 2^30
Floor(x) ==
  IF Precision + x.x <= 0 THEN 0 ELSE BitsValue(SubSeq(x.m, 1, Precision + x.x))

\* Math.round of a double below 2^30: the integer below, plus one when the
\* part cut is a half or more
MathRound(x) ==
  IF x.x >= 0 THEN Floor(x)
  ELSE IF Precision + x.x < 0 THEN 0
  ELSE Floor(x) + x.m[Precision + x.x + 1]

\* x === k for a double x and a natural number k below 2^30
EqualsNatural(x, k) == IsInteger(x) /\ x.x < 0 /\ Floor(x) = k

(***************************************************************************)
(* src/api/server.js: the Razorpay server.  crypto.createHmac('sha256',    *)
(* key).update(s).digest('hex') is taken to be collision-free: a token is  *)
(* identified by the key and the text; digest('hex') is lower case.        *)
(***************************************************************************)
hmacSha256Hex(key, s) == [t |-> "hmac", s |-> s, k |-> key]

\* the same digits with the letters in upper case
UpperHex(v) == IF v.t = "hmac" THEN [v EXCEPT !.t = "HMAC"] ELSE v

BAR == << "|" >>
KEY_SECRET2 == << "r", "2" >>

RazorRes(status, success, message, computed) ==
  [status |-> status, success |-> success, message |-> message, computed |-> computed]

\* amount * 100: the amount becomes a number, and the product is rounded
\* to the nearest double
Times100(amount) ==
  LET n == ToNumber(amount)
      product == TimesNatural(NearestQuotient(IF n.c < 0 THEN 0 - n.c ELSE n.c, 100), 100)
  IN  IF n.nan THEN [kind |-> "nan", m |-> << >>, x |-> 0]
      ELSE IF n.c = 0 THEN [kind |-> "zero", m |-> << >>, x |-> 0]
      ELSE [kind |-> IF n.c < 0 THEN "negative" ELSE "positive",
            m |-> product.m, x |-> product.x]

\* POST /api/create-order up to razorpay.orders.create(options)
razorpay_create_order(body) ==
  IF ~Truthy(body.amount)
  THEN [create |-> FALSE, res |-> RazorRes(400, FALSE, "Amount is required", FALSE),
        options |-> NoRazorOptions]
  ELSE [create |-> TRUE, res |-> NoRazorRes, options |-> Times100(body.amount)]

\* POST /api/verify-payment comparing the digits without their case
verify_payment_caseless(secret, body) ==
  LET generatedSignature ==
        hmacSha256Hex(secret.s, ToStr(body.order_id) \o BAR \o ToStr(body.payment_id))
  IN  IF ~Truthy(body.order_id) \/ ~Truthy(body.payment_id) \/ ~Truthy(body.signature)
      THEN RazorRes(400, FALSE, "Missing required fields", FALSE)
      ELSE IF secret.t # "str"
           THEN RazorRes(500, FALSE, "<err.message>", FALSE)
      ELSE IF UpperHex(generatedSignature) = UpperHex(body.signature)
           THEN RazorRes(200, TRUE, "Payment verified successfully", TRUE)
      ELSE RazorRes(400, FALSE, "Invalid signature", TRUE)

\* POST /api/verify-payment; createHmac throws TypeError when the key is
\* undefined, and the catch block answers 500
verify_payment(secret, body) ==
  LET generatedSignature ==
        hmacSha256Hex(secret.s, ToStr(body.order_id) \o BAR \o ToStr(body.payment_id))
  IN  IF ~Truthy(body.order_id) \/ ~Truthy(body.payment_id) \/ ~Truthy(body.signature)
      THEN RazorRes(400, FALSE, "Missing required fields", FALSE)
      ELSE IF secret.t # "str"
           THEN RazorRes(500, FALSE, "<err.message>", FALSE)
      ELSE IF generatedSignature = body.signature
           THEN RazorRes(200, TRUE, "Payment verified successfully", TRUE)
      ELSE RazorRes(400, FALSE, "Invalid signature", TRUE)

\* req.body.amount: missing, zero, and amounts with at most two decimals as
\* JSON numbers and as strings
RazorAmounts ==
  { Undefined, Num(<< "0" >>),
    Num(<< "0", ".", "0", "7" >>), Str(<< "0", ".", "0", "7" >>),
    Num(<< "1", ".", "1", "5" >>), Str(<< "1", ".", "1", "5" >>),
    Num(<< "1", "5", "0" >>), Str(<< "1", "9", "9", ".", "5" >>),
    Num(<< "2", "0", "0" >>) }

RazorSecrets == { Str(KEY_SECRET), Str(KEY_SECRET2), Undefined }

OrderIds == { Undefined, Str(<< >>), Str(<< "o" >>), Str(<< "o", "|", "p" >>) }

PaymentIds == { Undefined, Str(<< >>), Str(<< "p" >>), Str(<< "p", "|", "q" >>) }

\* the signatures a client can send: none, text that is no digest, and the
\* digests made with either secret for any pair of ids, in either case
Signatures ==
  { Undefined, Str(<< >>), Str(<< "x" >>) }
    \cup { hmacSha256Hex(k.s, ToStr(o) \o BAR \o ToStr(p)) :
             k \in { Str(KEY_SECRET), Str(KEY_SECRET2) },
             o \in { Str(<< "o" >>), Str(<< "o", "|", "p" >>) },
             p \in { Str(<< "p" >>), Str(<< "p", "|", "q" >>) } }
    \cup { UpperHex(hmacSha256Hex(KEY_SECRET, ToStr(o) \o BAR \o << "p" >>)) :
             o \in { Str(<< "o" >>), Str(<< "o", "|", "p" >>) } }

\* a client posts an amount to /api/create-order
RazorOrderRequest ==
  /\ rzPc = "idle"
  /\ \E amount \in RazorAmounts :
       rzBody' = [NoRazorBody EXCEPT !.amount = amount]
  /\ rzRoute' = "create-order"
  /\ rzPc' = "received"
  /\ UNCHANGED << cfgVars, call, whVars, orVars, rzSecret, rzOptions, rzRes >>

\* a client posts to /api/verify-payment
RazorVerifyRequest ==
  /\ rzPc = "idle"
  /\ \E o \in OrderIds, p \in PaymentIds, g \in Signatures :
       rzBody' = [NoRazorBody EXCEPT !.order_id = o, !.payment_id = p, !.signature = g]
  /\ rzRoute' = "verify-payment"
  /\ rzPc' = "received"
  /\ UNCHANGED << cfgVars, call, whVars, orVars, rzSecret, rzOptions, rzRes >>

\* the create-order handler runs up to its response or to the call of
\* razorpay.orders.create
RazorCreateOrder ==
  /\ rzPc = "received"
  /\ rzRoute = "create-order"
  /\ \E step \in { razorpay_create_order(rzBody) } :
       /\ rzOptions' = step.options
       /\ rzRes' = step.res
       /\ rzPc' = IF step.create THEN "await" ELSE "done"
  /\ UNCHANGED << cfgVars, call, whVars, orVars, rzSecret, rzRoute, rzBody >>

\* razorpay.orders.create resolves (res.json({ success: true, order })) or
\* rejects (the catch block answers 500)
RazorOrdersCreateReturns ==
  /\ rzPc = "await"
  /\ \E created \in BOOLEAN :
       rzRes' = IF created THEN RazorRes(200, TRUE, "order", FALSE)
                ELSE RazorRes(500, FALSE, "<err.message>", FALSE)
  /\ rzPc' = "done"
  /\ UNCHANGED << cfgVars, call, whVars, orVars, rzSecret, rzRoute, rzBody, rzOptions >>

\* the verify-payment handler runs to its response
VerifyPayment ==
  /\ rzPc = "received"
  /\ rzRoute = "verify-payment"
  /\ rzRes' = verify_payment(rzSecret, rzBody)
  /\ rzPc' = "done"
  /\ UNCHANGED << cfgVars, call, whVars, orVars, rzSecret, rzRoute, rzBody, rzOptions >>

\* the response is sent; the next request can come
RazorDone ==
  /\ rzPc = "done"
  /\ rzPc' = "idle"
  /\ rzRoute' = "none"
  /\ rzBody' = NoRazorBody
  /\ rzOptions' = NoRazorOptions
  /\ rzRes' = NoRazorRes
  /\ UNCHANGED << cfgVars, call, whVars, orVars, rzSecret >>

RazorNext ==
  \/ RazorOrderRequest \/ RazorVerifyRequest \/ RazorCreateOrder
  \/ RazorOrdersCreateReturns \/ VerifyPayment \/ RazorDone

\* src/api/server.js deployed with either key secret, or with none
RazorInit ==
  /\ rzSecret \in RazorSecrets
  /\ RazorIdle
  /\ variant = "server"
  /\ env = MkEnv(Str(APP_ID), Str(SECRET1), Str(TRADE_TYPE), Str(NOTIFY_URL))
  /\ call = NoCall
  /\ whPc = "idle"
  /\ notifyData = << >>
  /\ whOrigin = NoOrigin
  /\ whRes = NoRes
  /\ clock = 0
  /\ orPc = "idle"
  /\ reqAmount = Undefined
  /\ reqIp = Undefined
  /\ sent = << >>
  /\ keptSignature2 = Undefined
  /\ received = << >>
  /\ issued = { }
  /\ orRes = NoOrderRes

RazorSpec == RazorInit /\ [][RazorNext]_vars

\* the whole service
Next == SignerNext \/ WebhookNext \/ OrderNext \/ RazorNext

Spec == Init /\ [][Next]_vars

(***************************************************************************)
(* A webhook request and a create-order request handled at the same time:  *)
(* Node runs one handler while the other waits for the gateway or for its  *)
(* turn, so the steps of the two requests interleave, and the clock moves  *)
(* while a request is in flight.  The inputs are a part of those of        *)
(* WebhookSpec and OrderSpec.                                              *)
(***************************************************************************)
ConcurrentBodies ==
  { << >> } \cup { << [k |-> n, v |-> Str(<< "1" >>)] >> : n \in Names }

ConcurrentAmounts == { Undefined, Num(<< "2", "0", "0" >>), Str(<< "1", "9", "9", ".", "5" >>) }

ConcurrentReplies ==
  { Obj(<< [k |-> K_status, v |-> One], [k |-> K_pay_url, v |-> PAY_LINK] >>),
    Obj(<< [k |-> K_status, v |-> Zero], [k |-> K_msg, v |-> Str(SIGN_ERROR)] >>),
    Obj(<< [k |-> K_status, v |-> Zero], [k |-> K_msg, v |-> Str(<< "b", "a", "d" >>)] >>) }

ConcurrentErrors == { err \in TransportErrors : err.data = Undefined }

\* time passes while a request is in flight
Elapse ==
  /\ orPc # "idle" \/ whPc # "idle"
  /\ clock < MaxClock
  /\ clock' = clock + 1
  /\ UNCHANGED << cfgVars, rzVars, call, whVars, orPc, reqAmount, reqIp, sent, keptSignature2,
                  received, issued, orRes >>

ConcurrentNotify == GatewayNotifyFrom(ConcurrentBodies)

ConcurrentPost == PostNotifyFrom(ConcurrentBodies)

ConcurrentRequest == OrderRequestFrom(ConcurrentAmounts, { Undefined })

ConcurrentReply == GatewayReplyFrom(ConcurrentReplies)

ConcurrentFail == GatewayFailFrom(ConcurrentErrors)

ConcurrentNext ==
  \/ ConcurrentNotify \/ ConcurrentPost \/ Webhook \/ WebhookDone
  \/ Tick \/ ConcurrentRequest \/ CreateOrder \/ ConcurrentReply \/ ConcurrentFail
  \/ OrderDone \/ Elapse

ConcurrentInit ==
  /\ Init
  /\ env \in { MkEnv(Str(APP_ID), Str(SECRET1), Str(TRADE_TYPE), Str(NOTIFY_URL)),
                MkEnv(Str(APP_ID), Undefined, Str(TRADE_TYPE), Str(NOTIFY_URL)) }

ConcurrentSpec == ConcurrentInit /\ [][ConcurrentNext]_vars

(***************************************************************************)
(* Properties of the webhook.                                              *)
(***************************************************************************)
\* the signature the deployed webhook recomputes for the body it received
Recomputed == Apply(SignerOf(variant), DeleteKey(notifyData, K_sign), env.LGPAY_SECRET_KEY)

Acknowledged == whRes.status = 200 /\ whRes.text = "success"

\* C1: a notification that carries, under sign, the signature of its other
\* fields made with the configured secret is accepted: the webhook answers
\* 'success'.
C1_RoundTrip ==
  (whPc = "done" /\ whOrigin.kind = "signed" /\ whOrigin.k = env.LGPAY_SECRET_KEY)
    => (Acknowledged /\ Get(notifyData, K_sign) = Recomputed)

C1_Witness ==
  /\ whPc = "done"
  /\ whOrigin.kind = "signed"
  /\ whOrigin.k = env.LGPAY_SECRET_KEY
  /\ Len(whOrigin.m) >= 1
  /\ Acknowledged

\* C2: a notification whose sign field differs from the signature recomputed
\* with the configured secret is answered 400 'Invalid signature' and is
\* never processed.
C2_WrongSignRejected ==
  (/\ whPc = "done"
   /\ Truthy(env.LGPAY_SECRET_KEY)
   /\ HasKey(notifyData, K_sign)
   /\ Get(notifyData, K_sign) # Recomputed)
    => (whRes.status = 400 /\ whRes.text = "Invalid signature" /\ ~whRes.processed)

\* C3: 'success' is answered only to a notification whose sign field is
\* present and equal to the recomputed signature.
C3_AckOnlyIfSigned ==
  (whPc = "done" /\ whRes.text = "success")
    => (HasKey(notifyData, K_sign) /\ Get(notifyData, K_sign) = Recomputed)

\* C4: a notification signed with a secret other than the configured one is
\* never acknowledged; with a secret configured it is answered 400.
C4_WrongSecretRejected ==
  (whPc = "done" /\ whOrigin.kind = "signed" /\ whOrigin.k # env.LGPAY_SECRET_KEY)
    => (/\ ~Acknowledged
        /\ ~whRes.processed
        /\ Truthy(env.LGPAY_SECRET_KEY) => whRes.status = 400)

C4_Witness ==
  /\ whPc = "done"
  /\ whOrigin.kind = "signed"
  /\ Truthy(env.LGPAY_SECRET_KEY)
  /\ whOrigin.k # env.LGPAY_SECRET_KEY
  /\ Len(whOrigin.m) >= 1
  /\ whRes.status = 400

(***************************************************************************)
(* Properties of the signers.                                              *)
(***************************************************************************)
\* C5: a sign field in the map never changes the signature.
C5_SignFieldIgnored ==
  (call.pc = "done" /\ HasKey(call.data, K_sign))
    => call.token = Apply(call.fn, DeleteKey(call.data, K_sign), call.key)

\* C6: a field whose value is the empty string, null or undefined never
\* changes the signature.
C6_EmptyFieldIgnored ==
  call.pc = "done" =>
    \A i \in 1..Len(call.data) :
      (call.data[i].k # K_sign /\ ~NonEmpty(call.data[i].v))
        => call.token = Apply(call.fn, DeleteKey(call.data, call.data[i].k), call.key)

\* the orders in which the fields of a map can have been inserted
InsertionOrders(obj) ==
  { [i \in 1..Len(obj) |-> obj[f[i]]] :
      f \in { g \in [1..Len(obj) -> 1..Len(obj)] :
                \A i, j \in 1..Len(obj) : i # j => g[i] # g[j] } }

\* C7: the signature does not depend on the order in which the fields were
\* inserted.
C7_OrderInsensitive ==
  call.pc = "done" =>
    \A p \in InsertionOrders(call.data) : Apply(call.fn, p, call.key) = call.token

C7_Witness ==
  /\ call.pc = "done"
  /\ Len(call.data) >= 2
  /\ call.data[1].k = K_b
  /\ call.data[2].k = K_a
  /\ NonEmpty(call.data[1].v)
  /\ NonEmpty(call.data[2].v)

\* the fields that take part in the signature: not sign, not empty
Signable(obj) == SelectSeq(obj, LAMBDA e : e.k # K_sign /\ NonEmpty(e.v))

\* the canonical string-to-sign: name=value with the raw value, by ascending
\* name, joined with '&', then "&key=" and the secret
CanonicalString(obj, key) ==
  LET fields == PickInOrder(Signable(obj), Sort(ObjectKeys(Signable(obj))))
  IN  Join([i \in 1..Len(fields) |-> fields[i].k \o EQ \o ToStr(fields[i].v)], AMP)
        \o KEY_SUFFIX \o key.s

\* C8: every signer hashes the canonical string-to-sign, values raw.
C8_CanonicalStringToSign ==
  (call.pc = "done" /\ Truthy(call.key))
    => call.string = CanonicalString(call.data, call.key)

\* C9 as claimed: with no signable field the text hashed is key=<secret>,
\* with no '&' before it.
C9_DegenerateNoAmpersand ==
  (call.pc = "done" /\ Truthy(call.key) /\ Len(Signable(call.data)) = 0)
    => call.string = << "k", "e", "y", "=" >> \o call.key.s

\* the signers that drop the sign field and the empty fields
Stripping == { "md5_sign", "md5_sign_v2", "generateSignature" }

\* C9 as amended: a token is always returned.  For a map with no field at
\* all, and in the signers that drop sign and empty fields for a map with no
\* signable field, the text hashed is &key=<secret>, the '&' included.  The
\* md5_sign of src/unnamed/part_003 drops nothing: a map that holds only
\* sign or empty fields is hashed with those fields before &key=<secret>.
C9_DegenerateString ==
  (call.pc = "done" /\ Truthy(call.key) /\ Len(Signable(call.data)) = 0)
    => (/\ call.token = [t |-> "HEX", s |-> call.string]
        /\ (Len(call.data) = 0 \/ call.fn \in Stripping)
              => call.string = KEY_SUFFIX \o call.key.s
        /\ (Len(call.data) > 0 /\ call.fn \notin Stripping)
              => (/\ Len(call.string) > Len(KEY_SUFFIX \o call.key.s)
                  /\ SubSeq(call.string,
                            Len(call.string) - Len(KEY_SUFFIX \o call.key.s) + 1,
                            Len(call.string)) = KEY_SUFFIX \o call.key.s))

C9_Witness ==
  /\ call.pc = "done"
  /\ Truthy(call.key)
  /\ call.fn = "generateSignature"
  /\ Len(call.data) >= 1
  /\ Len(Signable(call.data)) = 0
  /\ call.token.t = "HEX"

(***************************************************************************)
(* Properties of create-order.                                             *)
(***************************************************************************)
\* an amount that is missing, not a number, zero or negative
InvalidAmountInput(a) ==
  \/ a.t \in { "undef", "null" }
  \/ ToNumber(a).nan
  \/ ToNumber(a).c <= 0

\* C10: a request whose amount is missing, non-numeric, zero or negative is
\* answered with a 4xx error; no order is built and nothing is sent to the
\* gateway.
C10_InvalidAmountRejected ==
  (/\ orPc \in { "await1", "await2", "done" }
   /\ ~ConfigMissing(env)
   /\ InvalidAmountInput(reqAmount))
    => (/\ orPc = "done"
        /\ orRes.status >= 400
        /\ orRes.status <= 499
        /\ sent = << >>)


\* the request has been handled up to a response or a call of the gateway
Handled == orPc \in { "await1", "await2", "done" }

\* a positive decimal amount, and its value in hundredths of a rupee
ValidAmountInput(a) == Truthy(a) /\ ~InvalidAmountInput(a)

BelowMinimumAnswer == orRes.status = 400 /\ orRes.message = "Minimum order amount"

\* C11: in src/unnamed/part_000 (minimum 200) a positive amount below the
\* minimum is answered 400 with the minimum, the amount and the shortfall
\* minimum - amount, and nothing is sent; an amount of at least the minimum
\* is never refused as below the minimum; the files without a minimum never
\* refuse an amount as below the minimum.
C11_BelowMinimum ==
  (Handled /\ ValidAmountInput(reqAmount)) =>
    LET a == ToNumber(reqAmount).c
    IN  /\ (variant = "part_000" /\ a < 100 * LGPAY_MIN_AMOUNT)
              => (/\ orPc = "done"
                  /\ BelowMinimumAnswer
                  /\ ~orRes.success
                  /\ orRes.detail.minimumAmount = LGPAY_MIN_AMOUNT
                  /\ orRes.detail.currentAmount = Number(a)
                  /\ orRes.detail.difference = Number(100 * LGPAY_MIN_AMOUNT - a)
                  /\ sent = << >>)
        /\ (variant = "part_000" /\ a >= 100 * LGPAY_MIN_AMOUNT) => ~BelowMinimumAnswer
        /\ variant # "part_000" => ~BelowMinimumAnswer

C11_Witness ==
  /\ orPc = "done"
  /\ variant = "part_000"
  /\ reqAmount = Num(<< "1", "5", "0" >>)
  /\ BelowMinimumAnswer
  /\ orRes.detail.difference = Number(100 * 50)


ConfigMissingAnswer ==
  orRes.status = 500 /\ ~orRes.success /\ orRes.message = "LG-Pay configuration missing"

\* C12 as claimed: with the merchant id, the secret or the trade type not
\* configured, the request ends with the ConfigMissing 5xx response and
\* nothing is sent to the gateway.
C12_ConfigMissingAlways5xx ==
  (Handled /\ ConfigMissing(env))
    => (orPc = "done" /\ ConfigMissingAnswer /\ sent = << >>)

\* C12 as amended: with the merchant id, the secret or the trade type not
\* configured, nothing is ever sent to the gateway; the request ends with
\* the ConfigMissing 500 response, unless the amount was refused first with
\* a 400 (the amount is checked before the configuration).
C12_ConfigMissingNoTransmission ==
  (Handled /\ ConfigMissing(env))
    => (/\ orPc = "done"
        /\ sent = << >>
        /\ \/ ConfigMissingAnswer
           \/ /\ orRes.status = 400
              /\ ~orRes.success
              /\ InvalidAmountInput(reqAmount) \/ BelowMinimumAnswer
        /\ (ValidAmountInput(reqAmount) /\ ~BelowMinimumAnswer) => ConfigMissingAnswer)

C12_Witness ==
  /\ orPc = "done"
  /\ ConfigMissing(env)
  /\ ValidAmountInput(reqAmount)
  /\ ConfigMissingAnswer
  /\ sent = << >>


\* C13: at most one order-creation call is sent to the gateway for a
\* request; an error reported by the gateway never leads to a second call.
C13_SingleTransmission == Len(sent) <= 1


\* the last thing that came back from the gateway for this request
LastReceived == received[Len(received)]

\* the handler has answered after an answer of the gateway
AnsweredAfterResponse ==
  orPc = "done" /\ Len(received) > 0 /\ LastReceived.kind = "response"

\* C14: a valid request, under a complete configuration, to which the gateway
\* answers status 1 with a pay_url, ends with success = true, the order_sn
\* that was transmitted and that URL as pay_url.
C14_SuccessPayload ==
  (/\ AnsweredAfterResponse
   /\ ValidAmountInput(reqAmount)
   /\ Field(LastReceived.data, K_status) = One
   /\ Truthy(Field(LastReceived.data, K_pay_url)))
    => (/\ orRes.success
        /\ orRes.status = 200
        /\ orRes.order_sn = Get(sent[Len(sent)], K_order_sn)
        /\ orRes.pay_url = Field(LastReceived.data, K_pay_url))


\* the field names the claim lists, in their priority order
UrlNames == << K_pay_url, K_payment_url, K_payUrl, K_url, K_redirect_url, K_qr_url >>

\* the first non-empty URL of an answer: the six names at the top level,
\* then the same names under data
ProbedUrl(r) ==
  LET cands == [i \in 1..12 |-> IF i <= 6 THEN Field(r, UrlNames[i])
                                ELSE DataField(r, UrlNames[i - 6])]
      hits == { i \in 1..12 : Truthy(cands[i]) }
  IN  IF hits = {} THEN Undefined
      ELSE cands[CHOOSE i \in hits : \A j \in hits : i <= j]

\* C15: an answer of the gateway (status 1) that holds a URL under one of
\* the listed names, at the top level or under data, ends with success and
\* that URL as pay_url, never with 'No payment URL'.
C15_UrlProbing ==
  (/\ AnsweredAfterResponse
   /\ Field(LastReceived.data, K_status) = One
   /\ Truthy(ProbedUrl(LastReceived.data)))
    => (/\ orRes.success
        /\ orRes.pay_url = ProbedUrl(LastReceived.data)
        /\ orRes.message # "No payment URL received from LG-Pay")


\* C16: the order_sn of an order that is built differs from the order_sn of
\* every order built before it.
C16_UniqueOrderSn ==
  [][(orPc = "received" /\ orPc' = "await1")
       => Get(sent'[1], K_order_sn) \notin issued]_vars


\* a text shows the key: it is the key, or it ends with "key=" and the key
Discloses(text, key) ==
  /\ Truthy(key)
  /\ \/ text = key.s
     \/ /\ Len(text) >= Len(key.s) + 4
        /\ SubSeq(text, Len(text) - Len(key.s) - 3, Len(text))
             = << "k", "e", "y", "=" >> \o key.s

\* C17: no line a signer writes to the log shows the configured secret key.
C17_SecretNotLogged ==
  \A i \in 1..Len(call.log) : ~Discloses(call.log[i], env.LGPAY_SECRET_KEY)


\* C18: when the gateway's answer has status 0, the response does not say
\* success, is not the answer to some other error, and holds the gateway's
\* msg when there is one (as the message it relays or inside the gateway's
\* answer it carries).
C18_GatewayErrorPropagated ==
  (AnsweredAfterResponse /\ Field(LastReceived.data, K_status) = Zero)
    => (/\ ~orRes.success
        /\ orRes.error = Undefined
        /\ Truthy(Field(LastReceived.data, K_msg))
             => \/ orRes.gatewayMsg = Field(LastReceived.data, K_msg)
                \/ orRes.response = LastReceived.data)


\* the handler has answered after a call of the gateway that failed
AnsweredAfterFailure ==
  orPc = "done" /\ Len(received) > 0 /\ LastReceived.kind = "error"

\* C19: when the call of the gateway fails or times out, the response has
\* a 5xx status, success false, no order reference and no payment URL, and
\* its error field is the body that came with the failure when there is
\* one (a non-empty body), the error's message otherwise.
C19_NetworkError ==
  AnsweredAfterFailure
    => (/\ orRes.status \in 500..599
        /\ ~orRes.success
        /\ orRes.order_sn = Undefined
        /\ orRes.pay_url = Undefined
        /\ orRes.error = IF LastReceived.data \notin { Undefined, Str(<< >>) }
                           THEN LastReceived.data
                           ELSE LastReceived.message)

\* a failure that came with a body has been answered with that body
C19_Witness ==
  /\ AnsweredAfterFailure
  /\ LastReceived.data = Str(<< "d", "o", "w", "n" >>)
  /\ orRes.status = 500
  /\ orRes.error = Str(<< "d", "o", "w", "n" >>)


\* C20: a notification signed by the gateway with the configured secret is
\* answered with the text 'success', and the map handed on is the map that
\* was posted, the sign field included.
C20_WebhookAck ==
  (whPc = "done" /\ whOrigin.kind = "signed" /\ whOrigin.k = env.LGPAY_SECRET_KEY)
    => (/\ whRes.status = 200
        /\ whRes.text = "success"
        /\ whRes.handed
             = << SetKey(whOrigin.m, K_sign,
                         Apply(SignerOf(variant), whOrigin.m, whOrigin.k)) >>)

\* a signed notification of two fields has been acknowledged and handed on
\* with its three fields
C20_Witness ==
  /\ whPc = "done"
  /\ whOrigin.kind = "signed"
  /\ whOrigin.k = env.LGPAY_SECRET_KEY
  /\ Len(whOrigin.m) = 2
  /\ whRes.text = "success"
  /\ Len(whRes.handed) = 1
  /\ Len(whRes.handed[1]) = 3


\* C21: when the secret key is not configured, every notification is
\* answered with a 5xx status, never with 'success', is not processed, and
\* the handler does not call the signer.
C21_WebhookConfigMissing ==
  (whPc = "done" /\ ~Truthy(env.LGPAY_SECRET_KEY))
    => (/\ whRes.status \in 500..599
        /\ whRes.text # "success"
        /\ ~whRes.processed
        /\ ~whRes.computed)

\* a notification that carries a sign field has been answered 500 under a
\* configuration without secret
C21_Witness ==
  /\ whPc = "done"
  /\ env.LGPAY_SECRET_KEY = Undefined
  /\ Truthy(Get(notifyData, K_sign))
  /\ Len(notifyData) >= 2
  /\ whRes.status = 500


\* C23: an order that holds a converted amount has been built and sent only
\* for an amount that is present, numeric and positive, and at least the
\* minimum where the file has one (part_000).
C23_ConversionAfterValidation ==
  Len(sent) > 0
    => (/\ ValidAmountInput(reqAmount)
        /\ variant = "part_000" => ToNumber(reqAmount).c >= 100 * LGPAY_MIN_AMOUNT)


(***************************************************************************)
(* The form body as the gateway reads it.                                  *)
(***************************************************************************)
\* one name or value of an application/x-www-form-urlencoded body decoded:
\* '+' is a space, %XX is the character of that code
FormDecode(s) ==
  decodeURIComponent([i \in 1..Len(s) |-> IF s[i] = "+" THEN " " ELSE s[i]])

\* the fields of a form body, in order: the body is cut at every '&', each
\* piece at its first '='
ParseForm(body) ==
  LET cuts == { i \in 1..Len(body) : body[i] = "&" }
      n == Cardinality(cuts) + 1
      Cut(j) == IF j = 0 THEN 0
                ELSE IF j = n THEN Len(body) + 1
                ELSE CHOOSE i \in cuts : Cardinality({ q \in cuts : q < i }) = j - 1
      Piece(j) == SubSeq(body, Cut(j - 1) + 1, Cut(j) - 1)
      Eq(t) == IF \E i \in 1..Len(t) : t[i] = "="
               THEN CHOOSE i \in 1..Len(t) : t[i] = "=" /\ \A q \in 1..(i - 1) : t[q] # "="
               ELSE Len(t) + 1
  IN  IF Len(body) = 0 THEN << >>
      ELSE [j \in 1..n |->
              [k |-> FormDecode(SubSeq(Piece(j), 1, Eq(Piece(j)) - 1)),
               v |-> Str(FormDecode(SubSeq(Piece(j), Eq(Piece(j)) + 1, Len(Piece(j)))))]]

\* the names of an order, in the order the handlers write them
OrderFields ==
  << K_app_id, K_trade_type, K_order_sn, K_money, K_notify_url, K_ip, K_remark, K_sign >>

\* C24: every order that is on its way to the gateway is the parameter map
\* of the request (app_id, trade_type, order_sn, money as text, notify_url,
\* ip, remark, with the values the request and the configuration give them)
\* plus the one field sign; the sign of the first order is the file's
\* signer applied to the order without sign; the form body the gateway
\* reads has the same fields with the text of the same values.
C24_SigningFrame ==
  orPc \in { "await1", "await2" } =>
  \A i \in 1..Len(sent) : \A order \in { sent[i] } : \A map \in { DeleteKey(sent[i], K_sign) } :
        /\ ObjectKeys(order) = OrderFields
        /\ ObjectKeys(map) = SubSeq(OrderFields, 1, 7)
        /\ Get(order, K_app_id) = env.LGPAY_APP_ID
        /\ Get(order, K_trade_type) = env.LGPAY_TRADE_TYPE
        /\ Get(order, K_order_sn) = Str(<< "p" >> \o NatToStr(clock))
        /\ ToStr(Get(order, K_money))
             = IntegerToString(RoundTimes100(parseFloat(reqAmount)))
        /\ Get(order, K_notify_url) = env.LGPAY_NOTIFY_URL
        /\ Get(order, K_ip) = (IF Truthy(reqIp) THEN reqIp ELSE Str(LOOPBACK))
        /\ Get(order, K_remark) = Str(ORDER_REMARK)
        /\ i = 1 => Get(order, K_sign)
                      = Apply(SignerOf(variant), map, env.LGPAY_SECRET_KEY)
        /\ ParseForm(FormBody(order))
             = [j \in 1..Len(order) |-> [k |-> order[j].k, v |-> Str(ToStr(order[j].v))]]

\* an order for "199.5" rupees coming from a given address has been sent
C24_Witness ==
  /\ orPc = "await1"
  /\ Len(sent) = 1
  /\ reqAmount = Str(<< "1", "9", "9", ".", "5" >>)
  /\ Truthy(reqIp)
  /\ Get(sent[1], K_money).s = << "1", "9", "9", "5", "0" >>
  /\ Get(sent[1], K_sign).t = "HEX"


\* C25: a notification that claims a token (a non-empty sign) is
\* acknowledged exactly when that token equals the recomputed one, letter
\* case included; the right digest written in lower case is answered 400
\* 'Invalid signature'.
C25_CaseSensitive ==
  (whPc = "done" /\ Truthy(env.LGPAY_SECRET_KEY) /\ Truthy(Get(notifyData, K_sign)))
    => (/\ Acknowledged <=> Get(notifyData, K_sign) = Recomputed
        /\ whOrigin.kind = "lowercase"
             => (/\ whRes.status = 400
                 /\ whRes.text = "Invalid signature"
                 /\ ~whRes.processed))

\* the gateway's own digest for the configured secret, in lower case, has
\* been refused
C25_Witness ==
  /\ whPc = "done"
  /\ whOrigin.kind = "lowercase"
  /\ whOrigin.k = env.LGPAY_SECRET_KEY
  /\ toUpperCase(Get(notifyData, K_sign)) = Recomputed
  /\ whRes.status = 400


(***************************************************************************)
(* Requests handled at the same time.                                      *)
(***************************************************************************)
\* the answer of the webhook to notifyData handled alone: its status
AloneWebhookStatus ==
  IF ~Truthy(env.LGPAY_SECRET_KEY) THEN 500
  ELSE IF variant = "part_003" /\ Len(notifyData) = 0 THEN 400
  ELSE IF Truthy(Get(notifyData, K_sign)) /\ Get(notifyData, K_sign) # Recomputed THEN 400
  ELSE 200

\* the answers of create-order to the request handled alone, with the clock
\* at now when the order is built and the gateway answering as in received
AfterRetry(order, signature2) ==
  IF received[2].kind = "error"
  THEN { create_order_catch(variant, [data |-> received[2].data,
                                      message |-> received[2].message]) }
  ELSE { create_order_reply(variant, FALSE, received[2].data, order, signature2).res }

AfterFirst(first) ==
  IF received[1].kind = "error"
  THEN { create_order_catch(variant, [data |-> received[1].data,
                                      message |-> received[1].message]) }
  ELSE UNION { IF step.retry THEN AfterRetry(step.order, first.signature2)
               ELSE { step.res } :
               step \in { create_order_reply(variant, TRUE, received[1].data,
                                              first.order, first.signature2) } }

AloneAnswers(now) ==
  UNION { IF first.transmit THEN AfterFirst(first) ELSE { first.res } :
          first \in { create_order(variant, env, reqAmount, reqIp, now) } }

SignerOfTransmission(i) == IF i = 2 THEN "md5_sign_v2" ELSE SignerOf(variant)

\* the sign of the order agrees with the signer applied to the fields of
\* the form body without sign, as the gateway reads them
SignedAsTransmitted(order, fn) ==
  \A fields \in { ParseForm(FormBody(order)) } :
    ToStr(Get(fields, K_sign))
      = ToStr(Apply(fn, DeleteKey(fields, K_sign), env.LGPAY_SECRET_KEY))

\* C28: the sign of every order that is on its way to the gateway equals
\* the signer recomputed over the form fields transmitted with it.
C28_SignedEqualsTransmitted ==
  orPc \in { "await1", "await2" } =>
    SignedAsTransmitted(sent[Len(sent)], SignerOfTransmission(Len(sent)))

\* C28 with the callback URL configured, and for the signer of part_003,
\* which signs every field, undefined ones included
C28_WhenNotifyUrlSet ==
  (orPc \in { "await1", "await2" }
     /\ (Truthy(env.LGPAY_NOTIFY_URL) \/ variant = "part_003"))
    => SignedAsTransmitted(sent[Len(sent)], SignerOfTransmission(Len(sent)))


(***************************************************************************)
(* The retry of src/server.js with the alternative signature.              *)
(***************************************************************************)
\* lgPayResponse.msg === 'Sign Error' || lgPayResponse.status === 0
ReportsSignError(reply) ==
  /\ reply.kind = "response"
  /\ Field(reply.data, K_msg) = Str(SIGN_ERROR) \/ Field(reply.data, K_status) = Zero

\* C29: a request makes at most two transmissions and gets at most two
\* answers; a second transmission exists only in src/server.js and only
\* after a first answer with msg 'Sign Error' or status 0; it carries the
\* fields of the first with sign alone replaced by the md5_sign_v2
\* signature of those fields; when the second answer is 'Sign Error' again
\* the request ends with success = false and nothing more is sent.
C29_RetryProtocol ==
  /\ Len(sent) <= 2
  /\ Len(received) <= Len(sent)
  /\ Len(sent) = 2 =>
       /\ variant = "server"
       /\ Len(received) >= 1
       /\ ReportsSignError(received[1])
       /\ DeleteKey(sent[2], K_sign) = DeleteKey(sent[1], K_sign)
       /\ ObjectKeys(sent[2]) = ObjectKeys(sent[1])
       /\ Get(sent[2], K_sign)
            = md5_sign_v2(DeleteKey(sent[1], K_sign), env.LGPAY_SECRET_KEY)
  /\ (Len(received) = 2 /\ received[2].kind = "response"
        /\ Field(received[2].data, K_msg) = Str(SIGN_ERROR)) =>
       /\ orPc = "done"
       /\ orRes.status = 200
       /\ ~orRes.success
       /\ Len(sent) = 2

\* both signatures have been refused: the order went out twice, with two
\* different signs, and the request has its answer
C29_Witness ==
  /\ orPc = "done"
  /\ Len(sent) = 2
  /\ Len(received) = 2
  /\ Field(received[1].data, K_msg) = Str(SIGN_ERROR)
  /\ received[2].kind = "response"
  /\ Field(received[2].data, K_msg) = Str(SIGN_ERROR)
  /\ Get(sent[2], K_sign) # Get(sent[1], K_sign)
  /\ ~orRes.success


(***************************************************************************)
(* One response for every create-order request.                            *)
(***************************************************************************)
\* the response of the request in hand is written now
Responds == orRes = NoOrderRes /\ orRes' # NoOrderRes /\ orPc # "done" /\ orPc' = "done"

\* the request is over and the next one can come
Forgets == orPc = "done" /\ orPc' = "idle" /\ orRes' = NoOrderRes

\* C27: every create-order request that is received gets its response, a
\* handler that has ended has responded, and the response of a request is
\* written once: it changes only when it is sent and when the request is
\* over.
C27_OneResponse ==
  /\ [](orPc = "done" <=> orRes # NoOrderRes)
  /\ [][orRes' # orRes => Responds \/ Forgets]_vars
  /\ (orPc = "received") ~> (orPc = "done")

\* the retry was answered without 'Sign Error' and the call of
\* processSuccessResponse threw: the catch block has responded
C27_Witness ==
  /\ orPc = "done"
  /\ variant = "server"
  /\ Len(received) = 2
  /\ received[2].kind = "response"
  /\ orRes.status = 500
  /\ orRes.error = Str(NOT_A_FUNCTION)


(***************************************************************************)
(* The amount in minor units.                                              *)
(***************************************************************************)
\* C22: the amount that src/api/server.js gives to razorpay.orders.create
\* for an amount with at most two decimals is the integer number of paise:
\* 100 times the amount, exactly.
C22_MinorUnitsInteger ==
  rzPc = "await" =>
    /\ rzOptions.kind = "positive"
    /\ IsInteger(rzOptions)
    /\ EqualsNatural(rzOptions, ToNumber(rzBody.amount).c)

\* C22 for the LG-Pay handlers: the money of the order sent is
\* Math.round(parseFloat(amount) * 100) computed in double precision, and it
\* is the integer number of paise
C22_RoundedConversion ==
  (orPc = "await1" /\ ~parseFloat(reqAmount).nan /\ parseFloat(reqAmount).c > 0) =>
    \A c \in { parseFloat(reqAmount).c } :
      /\ MathRound(TimesNatural(NearestQuotient(c, 100), 100)) = c
      /\ ToStr(Get(sent[1], K_money)) = NatToStr(c)

(***************************************************************************)
(* POST /api/verify-payment of src/api/server.js.                          *)
(***************************************************************************)
\* !order_id || !payment_id || !signature
MissingFields(body) ==
  ~Truthy(body.order_id) \/ ~Truthy(body.payment_id) \/ ~Truthy(body.signature)

\* C30: a verify-payment request with order_id, payment_id or signature
\* missing is answered 400 and no HMAC is computed; with the key secret
\* configured, any other request is answered 200 with success exactly when
\* its signature is the lower-case HMAC of order_id + '|' + payment_id under
\* that secret, and 400 'Invalid signature' otherwise.
C30_VerifyPayment ==
  (rzPc = "done" /\ rzRoute = "verify-payment") =>
    IF MissingFields(rzBody)
    THEN rzRes = RazorRes(400, FALSE, "Missing required fields", FALSE)
    ELSE rzSecret.t = "str" =>
           IF rzBody.signature
                = hmacSha256Hex(rzSecret.s, ToStr(rzBody.order_id) \o BAR
                                              \o ToStr(rzBody.payment_id))
           THEN rzRes.status = 200 /\ rzRes.success /\ rzRes.computed
           ELSE rzRes = RazorRes(400, FALSE, "Invalid signature", TRUE)

\* the right digest in upper case has been refused
C30_Witness ==
  /\ rzPc = "done"
  /\ rzRoute = "verify-payment"
  /\ rzSecret = Str(KEY_SECRET)
  /\ rzBody.signature
       = UpperHex(hmacSha256Hex(KEY_SECRET, ToStr(rzBody.order_id) \o BAR
                                             \o ToStr(rzBody.payment_id)))
  /\ rzRes.status = 400
  /\ rzRes.computed

====
